---- MODULE Spec2Model ----
(***************************************************************************)
(* A model of the rlox tree-walking interpreter: the resolver pass, the    *)
(* environment chain, the callable values and the statement / expression   *)
(* visitors of the interpreter, run as a small-step machine over a fixed   *)
(* set of Lox programs given as syntax trees.                              *)
(***************************************************************************)
EXTENDS Integers, Sequences, FiniteSets, TLC

VARIABLES
    program,      \* index of the source being run (run's `source`)
    locals,       \* Interpreter.locals : expression uid -> scope distance
    environment,  \* Interpreter.environment : id of the current frame
    envs,         \* heap of Environment frames, indexed by id (Rc<RefCell<Environment>>)
    instances,    \* heap of LoxInstance objects, indexed by id (Rc<RefCell<LoxInstance>>)
    ctl,          \* what the interpreter is doing: a node to visit or a Result coming back
    kont,         \* the Rust call stack of the visitors: one frame per suspended handler
    out,          \* lines written by println!
    reported,     \* errors reported (err.report()), in order
    reads,        \* history: the frames that answered the free references of called functions
    lastCall,     \* history: the last LoxFunction::call (or construction) that returned
    lastGet       \* history: the last LoxInstance::get that returned

vars == <<program, locals, environment, envs, instances, ctl, kont, out,
          reported, reads, lastCall, lastGet>>

-----------------------------------------------------------------------------
(* Bounds *)

\* Number of times the counting loops of the sample programs iterate.
MaxIter == 2

\* clock() readings the host may return are 0..MaxClock.
MaxClock == 1

\* Number operands of the binary operators are 0..MaxNumber.
MaxNumber == 2

\* Sources over the scanner's sample alphabet have at most MaxSource
\* characters.
MaxSource == 3

\* Block comments have at most MaxComment characters after their opening.
MaxComment == 4

\* Callees have 0..MaxArity parameters and are called with 0..MaxArity + 1
\* arguments.
MaxArity == 3

-----------------------------------------------------------------------------
(* Object (object.rs) *)

Nil == [t |-> "Nil"]
Number(n) == [t |-> "Number", n |-> n]
String(s) == [t |-> "String", s |-> s]
Bool(b) == [t |-> "Bool", b |-> b]
ClassInstance(id) == [t |-> "ClassInstance", id |-> id]
NativeFunction(name, arity) == [t |-> "NativeFunction", name |-> name, arity |-> arity]

\* LoxFunction::new
LoxFunction(declaration, closure, is_initializer) ==
    [t |-> "Function", declaration |-> declaration, closure |-> closure,
     is_initializer |-> is_initializer]

NoClass == [t |-> "None"]

\* LoxClass::new
LoxClass(name, super_class, methods) ==
    [t |-> "Class", name |-> name, super_class |-> super_class, methods |-> methods]

\* Interpreter::is_truthy
is_truthy(value) ==
    IF value.t = "Nil" THEN FALSE
    ELSE IF value.t = "Bool" THEN value.b
    ELSE TRUE

-----------------------------------------------------------------------------
(* Syntax trees (expr.rs, stmt.rs) *)

NoExpr == [t |-> "None"]
NoStmt == [t |-> "None"]

Literal(uid, value) == [t |-> "Literal", uid |-> uid, value |-> value]
Variable(uid, name) == [t |-> "Variable", uid |-> uid, name |-> name]
Assign(uid, name, value) == [t |-> "Assign", uid |-> uid, name |-> name, value |-> value]
Binary(uid, left, operator, right) ==
    [t |-> "Binary", uid |-> uid, left |-> left, operator |-> operator, right |-> right]
Call(uid, callee, arguments) ==
    [t |-> "Call", uid |-> uid, callee |-> callee, arguments |-> arguments]
Get(uid, object, name) == [t |-> "Get", uid |-> uid, object |-> object, name |-> name]
Set(uid, object, name, value) ==
    [t |-> "Set", uid |-> uid, object |-> object, name |-> name, value |-> value]
This(uid) == [t |-> "This", uid |-> uid, name |-> "this"]
Super(uid, method) == [t |-> "Super", uid |-> uid, method |-> method]

Block(statements) == [t |-> "Block", statements |-> statements]
Class(name, super_class, methods) ==
    [t |-> "Class", name |-> name, super_class |-> super_class, methods |-> methods]
Expression(expression) == [t |-> "Expression", expression |-> expression]
Function(name, params, body) ==
    [t |-> "Function", name |-> name, params |-> params, body |-> body]
If(condition, then_branch, else_branch) ==
    [t |-> "If", condition |-> condition, then_branch |-> then_branch,
     else_branch |-> else_branch]
PrintS(expression) == [t |-> "Print", expression |-> expression]
Return(value) == [t |-> "Return", value |-> value]
Var(name, initializer) == [t |-> "Var", name |-> name, initializer |-> initializer]
While(condition, body) == [t |-> "While", condition |-> condition, body |-> body]
Break == [t |-> "Break"]

-----------------------------------------------------------------------------
(* Environment (environment.rs) *)

\* The id of the frame created by Interpreter::new; frames are numbered in
\* order of creation.
Globals == 1

\* `enclosing: None`
NoEnv == 0

\* A function with the empty domain (HashMap::new()).
EmptyMap == [x \in {} |-> Nil]

\* Environment::new / Environment::new_enclosing : the heap with one more frame
new_enclosing(h, enclosing) ==
    Append(h, [values |-> EmptyMap, enclosing |-> enclosing])

\* Environment::define : unconditional insert in frame e
define(h, e, name, value) ==
    [h EXCEPT ![e].values = (name :> value) @@ @]

Ok(v) == [ok |-> TRUE, v |-> v]
Err(msg) == [ok |-> FALSE, msg |-> msg]
\* Ok(value) of a read, with the frame whose map held the name (history)
OkAt(v, frame) == [ok |-> TRUE, v |-> v, frame |-> frame]

\* A variant of get that reads the frame itself only.
get_own_frame(h, e, name) ==
    IF name \in DOMAIN h[e].values THEN OkAt(h[e].values[name], e)
    ELSE Err("Undefined variable")

RECURSIVE get(_, _, _)
\* Environment::get : the frame itself, then the enclosing frames
get(h, e, name) ==
    IF name \in DOMAIN h[e].values THEN OkAt(h[e].values[name], e)
    ELSE IF h[e].enclosing # NoEnv THEN get(h, h[e].enclosing, name)
    ELSE Err("Undefined variable")

\* A variant of assign that binds the name in the frame itself when the frame
\* does not bind it.
assign_or_define(h, e, name, value) == Ok(define(h, e, name, value))

RECURSIVE assign(_, _, _, _)
\* Environment::assign : the heap after the write, or the error
assign(h, e, name, value) ==
    IF name \in DOMAIN h[e].values THEN Ok(define(h, e, name, value))
    ELSE IF h[e].enclosing # NoEnv THEN assign(h, h[e].enclosing, name, value)
    ELSE Err("Undefined variable")

RECURSIVE get_at(_, _, _, _)
\* Environment::get_at : walks `distance` links, then calls get on that frame
get_at(h, e, distance, name) ==
    IF distance = 0 THEN get(h, e, name)
    ELSE IF h[e].enclosing # NoEnv THEN get_at(h, h[e].enclosing, distance - 1, name)
    ELSE [ok |-> FALSE, msg |-> "panic"]

RECURSIVE assign_at(_, _, _, _, _)
\* Environment::assign_at : walks `distance` links, then defines in that frame
assign_at(h, e, distance, name, value) ==
    IF distance = 0 THEN Ok(define(h, e, name, value))
    ELSE IF h[e].enclosing # NoEnv
         THEN assign_at(h, h[e].enclosing, distance - 1, name, value)
    ELSE [ok |-> FALSE, msg |-> "panic"]

-----------------------------------------------------------------------------
(* Resolver (resolver.rs).  A resolver state r is the record of the struct  *)
(* fields; `locals` is the interpreter's side table the resolver fills.     *)

\* VariableInfo::new
VariableInfo(is_defined, is_used) == [is_defined |-> is_defined, is_used |-> is_used]

\* Resolver::new
Resolver_new ==
    [scopes |-> <<>>, locals |-> EmptyMap, had_error |-> FALSE,
     current_function |-> "None", current_class |-> "None", in_loop |-> FALSE]

\* Resolver::begin_scope
begin_scope(r) == [r EXCEPT !.scopes = Append(@, EmptyMap)]

\* Resolver::end_scope (the unused-variable warnings print only)
end_scope(r) ==
    IF r.scopes = <<>> THEN r
    ELSE [r EXCEPT !.scopes = SubSeq(@, 1, Len(@) - 1)]

\* Resolver::declare
declare(r, name) ==
    IF r.scopes = <<>> THEN r
    ELSE LET n == Len(r.scopes) IN
         [r EXCEPT !.had_error = @ \/ name \in DOMAIN r.scopes[n],
                   !.scopes[n] = (name :> VariableInfo(FALSE, FALSE)) @@ @]

\* Resolver::define
Resolver_define(r, name) ==
    IF r.scopes = <<>> THEN r
    ELSE LET n == Len(r.scopes) IN
         IF name \in DOMAIN r.scopes[n]
         THEN [r EXCEPT !.scopes[n][name].is_defined = TRUE]
         ELSE r

\* The innermost scope that holds name, 0 when none does (the reversed
\* iteration of resolve_local).
InnermostScope(scopes, name) ==
    LET S == {i \in 1..Len(scopes) : name \in DOMAIN scopes[i]} IN
    IF S = {} THEN 0 ELSE CHOOSE i \in S : \A j \in S : j <= i

\* Resolver::resolve_local with Interpreter::resolve
resolve_local(r, uid, name) ==
    LET idx == InnermostScope(r.scopes, name) IN
    IF idx = 0 THEN r
    ELSE [r EXCEPT !.scopes[idx][name].is_used = TRUE,
                   !.locals = (uid :> (Len(r.scopes) - idx)) @@ @]

RECURSIVE resolve(_, _)
RECURSIVE resolve_stmt(_, _)
RECURSIVE resolve_expr(_, _)
RECURSIVE resolve_exprs(_, _)
RECURSIVE declare_params(_, _)
RECURSIVE resolve_methods(_, _)

\* the parameter loop of resolve_function
declare_params(r, params) ==
    IF params = <<>> THEN r
    ELSE declare_params(Resolver_define(declare(r, Head(params)), Head(params)),
                        Tail(params))

\* Resolver::resolve_function
resolve_function(r, function, function_type) ==
    LET r1 == begin_scope([r EXCEPT !.current_function = function_type])
        r2 == declare_params(r1, function.params)
        r3 == resolve(r2, function.body)
        r4 == end_scope(r3)
    IN [r4 EXCEPT !.current_function = r.current_function]

\* Resolver::visit_block_stmt
Resolver_visit_block_stmt(r, stmt) ==
    end_scope(resolve(begin_scope(r), stmt.statements))

\* Resolver::visit_function_stmt
Resolver_visit_function_stmt(r, stmt) ==
    resolve_function(Resolver_define(declare(r, stmt.name), stmt.name), stmt, "Function")

\* Resolver::visit_if_stmt
Resolver_visit_if_stmt(r, stmt) ==
    LET r1 == resolve_stmt(resolve_expr(r, stmt.condition), stmt.then_branch) IN
    IF stmt.else_branch.t # "None" THEN resolve_stmt(r1, stmt.else_branch) ELSE r1

\* Resolver::visit_return_stmt
Resolver_visit_return_stmt(r, stmt) ==
    LET r1 == [r EXCEPT !.had_error = @ \/ r.current_function = "None"] IN
    IF stmt.value.t # "None" THEN resolve_expr(r1, stmt.value) ELSE r1

\* Resolver::visit_var_stmt
Resolver_visit_var_stmt(r, stmt) ==
    LET r1 == declare(r, stmt.name)
        r2 == IF stmt.initializer.t # "None" THEN resolve_expr(r1, stmt.initializer)
              ELSE r1
    IN Resolver_define(r2, stmt.name)

\* Resolver::visit_while_stmt
Resolver_visit_while_stmt(r, stmt) ==
    LET r1 == resolve_expr([r EXCEPT !.in_loop = TRUE], stmt.condition)
        r2 == resolve_stmt(r1, stmt.body)
    IN [r2 EXCEPT !.in_loop = r.in_loop]

\* Resolver::visit_break_stmt
Resolver_visit_break_stmt(r, stmt) ==
    [r EXCEPT !.had_error = @ \/ ~r.in_loop]

\* the method loop of Resolver::visit_class_stmt
resolve_methods(r, methods) ==
    IF methods = <<>> THEN r
    ELSE resolve_methods(resolve_function(r, Head(methods), "Method"), Tail(methods))

\* Resolver::visit_class_stmt
Resolver_visit_class_stmt(r, stmt) ==
    LET r1 == Resolver_define(declare([r EXCEPT !.current_class = "Class"], stmt.name),
                              stmt.name)
        r2 == begin_scope(r1)
        r3 == [r2 EXCEPT !.scopes[Len(r2.scopes)] =
                              ("this" :> VariableInfo(TRUE, FALSE)) @@ @]
        r4 == resolve_methods(r3, stmt.methods)
    IN end_scope([r4 EXCEPT !.current_class = r.current_class])

\* Resolver::visit_variable_expr
Resolver_visit_variable_expr(r, expr) ==
    LET n == Len(r.scopes)
        own == /\ n > 0
               /\ expr.name \in DOMAIN r.scopes[n]
               /\ ~r.scopes[n][expr.name].is_defined
    IN resolve_local([r EXCEPT !.had_error = @ \/ own], expr.uid, expr.name)

\* Resolver::visit_assign_expr
Resolver_visit_assign_expr(r, expr) ==
    resolve_local(resolve_expr(r, expr.value), expr.uid, expr.name)

\* Resolver::visit_call_expr
Resolver_visit_call_expr(r, expr) ==
    resolve_exprs(resolve_expr(r, expr.callee), expr.arguments)

\* Resolver::visit_set_expr
Resolver_visit_set_expr(r, expr) ==
    resolve_expr(resolve_expr(r, expr.value), expr.object)

\* Resolver::visit_this_expr
Resolver_visit_this_expr(r, expr) ==
    IF r.current_class = "None" THEN [r EXCEPT !.had_error = TRUE]
    ELSE resolve_local(r, expr.uid, "this")

\* Resolver::resolve (the test of r1 only makes its evaluation strict: every
\* resolver state has a Boolean had_error)
resolve(r, statements) ==
    IF statements = <<>> THEN r
    ELSE LET r1 == resolve_stmt(r, Head(statements)) IN
         IF r1.had_error \in BOOLEAN THEN resolve(r1, Tail(statements)) ELSE r1

\* the argument loop of Resolver::visit_call_expr
resolve_exprs(r, exprs) ==
    IF exprs = <<>> THEN r
    ELSE resolve_exprs(resolve_expr(r, Head(exprs)), Tail(exprs))

\* Resolver::resolve_stmt (Stmt::accept)
resolve_stmt(r, stmt) ==
    CASE stmt.t = "Block" -> Resolver_visit_block_stmt(r, stmt)
      [] stmt.t = "Class" -> Resolver_visit_class_stmt(r, stmt)
      [] stmt.t = "Expression" -> resolve_expr(r, stmt.expression)
      [] stmt.t = "Function" -> Resolver_visit_function_stmt(r, stmt)
      [] stmt.t = "If" -> Resolver_visit_if_stmt(r, stmt)
      [] stmt.t = "Print" -> resolve_expr(r, stmt.expression)
      [] stmt.t = "Return" -> Resolver_visit_return_stmt(r, stmt)
      [] stmt.t = "Var" -> Resolver_visit_var_stmt(r, stmt)
      [] stmt.t = "While" -> Resolver_visit_while_stmt(r, stmt)
      [] stmt.t = "Break" -> Resolver_visit_break_stmt(r, stmt)

\* Resolver::resolve_expr (Expr::accept)
resolve_expr(r, expr) ==
    CASE expr.t = "Assign" -> Resolver_visit_assign_expr(r, expr)
      [] expr.t = "Binary" -> resolve_expr(resolve_expr(r, expr.left), expr.right)
      [] expr.t = "Call" -> Resolver_visit_call_expr(r, expr)
      [] expr.t = "Get" -> resolve_expr(r, expr.object)
      [] expr.t = "Literal" -> r
      [] expr.t = "Set" -> Resolver_visit_set_expr(r, expr)
      [] expr.t = "Super" -> r   \* resolver.rs has no visit_super_expr: no report
      [] expr.t = "This" -> Resolver_visit_this_expr(r, expr)
      [] expr.t = "Variable" -> Resolver_visit_variable_expr(r, expr)

-----------------------------------------------------------------------------
(* The sources run.  Each is the statement list Parser::parse returns for   *)
(* the Lox text in the comment; every expression node has its own uid.      *)

\* var a = "global";
\* { fun show() { print a; } show(); var a = "block"; show(); }
ClosureScope ==
    << Var("a", Literal(1, String("global"))),
       Block(<< Function("show", <<>>, << PrintS(Variable(2, "a")) >>),
                Expression(Call(4, Variable(3, "show"), <<>>)),
                Var("a", Literal(5, String("block"))),
                Expression(Call(7, Variable(6, "show"), <<>>)) >>) >>

\* fun f(n) { var i = 0;
\*            while (true) { { if (i == n) return i; } i = i + 1; }
\*            print "unreachable"; }
\* print f(MaxIter);
ReturnFromLoop ==
    << Function("f", << "n" >>,
         << Var("i", Literal(1, Number(0))),
            While(Literal(2, Bool(TRUE)),
                  Block(<< Block(<< If(Binary(5, Variable(3, "i"), "==", Variable(4, "n")),
                                       Return(Variable(6, "i")), NoStmt) >>),
                           Expression(Assign(10, "i",
                               Binary(9, Variable(7, "i"), "+", Literal(8, Number(1))))) >>)),
            PrintS(Literal(11, String("unreachable"))) >>),
       PrintS(Call(14, Variable(12, "f"), << Literal(13, Number(MaxIter)) >>)) >>

\* var i = 0;
\* while (i < MaxIter) { while (true) { break; print "no"; } i = i + 1; }
\* print i;
NestedBreak ==
    << Var("i", Literal(1, Number(0))),
       While(Binary(4, Variable(2, "i"), "<", Literal(3, Number(MaxIter))),
             Block(<< While(Literal(5, Bool(TRUE)),
                            Block(<< Break, PrintS(Literal(6, String("no"))) >>)),
                      Expression(Assign(10, "i",
                          Binary(9, Variable(7, "i"), "+", Literal(8, Number(1))))) >>)),
       PrintS(Variable(11, "i")) >>

\* var g;
\* while (true) { fun f() { break; } g = f; break; }
\* while (true) { g(); print "unreachable"; }
\* g(); print "end";
BreakInFunction ==
    << Var("g", NoExpr),
       While(Literal(1, Bool(TRUE)),
             Block(<< Function("f", <<>>, << Break >>),
                      Expression(Assign(3, "g", Variable(2, "f"))),
                      Break >>)),
       While(Literal(4, Bool(TRUE)),
             Block(<< Expression(Call(6, Variable(5, "g"), <<>>)),
                      PrintS(Literal(7, String("unreachable"))) >>)),
       Expression(Call(9, Variable(8, "g"), <<>>)),
       PrintS(Literal(10, String("end"))) >>

\* class C { m() { print this.x; } }
\* var c = C(); c.x = 7; var f = c.m; f();
MethodBinding ==
    << Class("C", NoExpr, << Function("m", <<>>, << PrintS(Get(2, This(1), "x")) >>) >>),
       Var("c", Call(4, Variable(3, "C"), <<>>)),
       Expression(Set(7, Variable(5, "c"), "x", Literal(6, Number(7)))),
       Var("f", Get(9, Variable(8, "c"), "m")),
       Expression(Call(11, Variable(10, "f"), <<>>)) >>

\* class P { init(x) { this.x = x; return; print "no"; } }
\* var p = P(3); print p.x; print p.nope;
\* print p.init(4);
\* p.init = 5; print p.init;
Initializer ==
    << Class("P", NoExpr,
         << Function("init", << "x" >>,
              << Expression(Set(3, This(1), "x", Variable(2, "x"))),
                 Return(NoExpr),
                 PrintS(Literal(4, String("no"))) >>) >>),
       Var("p", Call(7, Variable(5, "P"), << Literal(6, Number(3)) >>)),
       PrintS(Get(9, Variable(8, "p"), "x")),
       PrintS(Get(11, Variable(10, "p"), "nope")),
       PrintS(Call(15, Get(13, Variable(12, "p"), "init"), << Literal(14, Number(4)) >>)),
       Expression(Set(18, Variable(16, "p"), "init", Literal(17, Number(5)))),
       PrintS(Get(20, Variable(19, "p"), "init")) >>

\* class A { greet() { return "A"; } }
\* class B < A { }
\* print B().greet();
Inheritance ==
    << Class("A", NoExpr,
         << Function("greet", <<>>, << Return(Literal(1, String("A"))) >>) >>),
       Class("B", Variable(2, "A"), <<>>),
       PrintS(Call(6, Get(5, Call(4, Variable(3, "B"), <<>>), "greet"), <<>>)) >>

\* fun f(a) { print a; }
\* f(); f(1, 2); f(1);
\* print clock(1); print clock();
\* class K { init(a) { print a; } } K(); K(1);
\* class E { } E(1); E();
\* "str"();
Arity ==
    << Function("f", << "a" >>, << PrintS(Variable(1, "a")) >>),
       Expression(Call(3, Variable(2, "f"), <<>>)),
       Expression(Call(7, Variable(4, "f"), << Literal(5, Number(1)), Literal(6, Number(2)) >>)),
       Expression(Call(10, Variable(8, "f"), << Literal(9, Number(1)) >>)),
       PrintS(Call(13, Variable(11, "clock"), << Literal(12, Number(1)) >>)),
       PrintS(Call(15, Variable(14, "clock"), <<>>)),
       Class("K", NoExpr,
         << Function("init", << "a" >>, << PrintS(Variable(16, "a")) >>) >>),
       Expression(Call(18, Variable(17, "K"), <<>>)),
       Expression(Call(21, Variable(19, "K"), << Literal(20, Number(1)) >>)),
       Class("E", NoExpr, <<>>),
       Expression(Call(24, Variable(22, "E"), << Literal(23, Number(1)) >>)),
       Expression(Call(26, Variable(25, "E"), <<>>)),
       Expression(Call(28, Literal(27, String("str")), <<>>)) >>

\* print "never"; return 1;
TopLevelReturn ==
    << PrintS(Literal(1, String("never"))), Return(Literal(2, Number(1))) >>

\* { var a = 1; class C { m() { return a; } } print C().m(); }
MethodReadsLocal ==
    << Block(<< Var("a", Literal(1, Number(1))),
                Class("C", NoExpr,
                  << Function("m", <<>>, << Return(Variable(2, "a")) >>) >>),
                PrintS(Call(6, Get(5, Call(4, Variable(3, "C"), <<>>), "m"), <<>>)) >>) >>

\* fun h() { { print 1 - "a"; } print "no"; }
\* h(); print "next";
ErrorInBlock ==
    << Function("h", <<>>,
         << Block(<< PrintS(Binary(3, Literal(1, Number(1)), "-", Literal(2, String("a")))) >>),
            PrintS(Literal(4, String("no"))) >>),
       Expression(Call(6, Variable(5, "h"), <<>>)),
       PrintS(Literal(7, String("next"))) >>

Programs ==
    << ClosureScope, ReturnFromLoop, NestedBreak, BreakInFunction, MethodBinding,
       Initializer, Inheritance, Arity, TopLevelReturn, MethodReadsLocal, ErrorInBlock >>

-----------------------------------------------------------------------------
(* LoxErrorResult (error.rs) and the machine's control *)

\* LoxErrorResult::interpreter_error
interpreter_error(message) ==
    [c |-> "err", kind |-> "Interpreter", message |-> message, value |-> Nil]

\* LoxErrorResult::break_signal
break_signal == [c |-> "err", kind |-> "Break", message |-> "", value |-> Nil]

\* LoxErrorResult::return_signal
return_signal(value) == [c |-> "err", kind |-> "Return", message |-> "", value |-> value]

\* a panic!() of the process
Panic == [c |-> "panic"]

\* Interpreter::execute(stmt) is about to run
Exec(stmt) == [c |-> "stmt", node |-> stmt]
\* Interpreter::evaluate(expr) is about to run
Eval(expr) == [c |-> "expr", node |-> expr]
\* evaluate returned Ok(value)
Value(value) == [c |-> "val", v |-> value]
\* execute returned Ok(())
Done == [c |-> "ok"]
\* run / interpret returned
Finished == [c |-> "finished"]

\* a Result of Environment::get and its like, as the control it produces
Returned(result) ==
    IF result.ok THEN Value(result.v)
    ELSE IF result.msg = "panic" THEN Panic
    ELSE interpreter_error(result.msg)

Top == kont[Len(kont)]
Pop == SubSeq(kont, 1, Len(kont) - 1)
Push(frame) == Append(kont, frame)

\* A suspended handler: what it is (k), the environment that was current when
\* it started the evaluation it waits for (env0, history), and its locals.
Frame(k, data) == [k |-> k, env0 |-> environment, data |-> data]

Visiting(kind, t) == ctl.c = kind /\ ctl.node.t = t
Resuming(kind, k) == ctl.c = kind /\ kont # <<>> /\ Top.k = k

history == <<reads, lastCall, lastGet>>
heap == <<envs, instances>>

-----------------------------------------------------------------------------
(* run (main.rs) and Interpreter::interpret *)

\* Interpreter::new : the global frame, which holds clock
Init ==
    /\ program \in DOMAIN Programs
    /\ locals = EmptyMap
    /\ environment = Globals
    /\ envs = << [values |-> ("clock" :> NativeFunction("clock", 0)), enclosing |-> NoEnv] >>
    /\ instances = <<>>
    /\ ctl = [c |-> "run"]
    /\ kont = <<>>
    /\ out = <<>>
    /\ reported = <<>>
    /\ reads = {}
    /\ lastCall = [c |-> "none"]
    /\ lastGet = [c |-> "none"]

\* run : the resolver pass over the parsed statements, then interpret unless
\* the resolver reported an error
Run ==
    /\ ctl.c = "run"
    /\ LET statements == Programs[program]
           resolver == resolve(Resolver_new, statements)
       IN /\ locals' = resolver.locals @@ locals
          /\ IF resolver.had_error \/ statements = <<>>
             THEN ctl' = Finished /\ kont' = kont
             ELSE /\ ctl' = Exec(Head(statements))
                  /\ kont' = Push(Frame("interpret", [rest |-> Tail(statements)]))
    /\ UNCHANGED <<program, environment, heap, out, reported, history>>

\* Interpreter::interpret : the statement loop, which reports an Err and goes on
interpret ==
    /\ ctl.c \in {"ok", "err"}
    /\ kont # <<>> /\ Top.k = "interpret"
    /\ reported' = IF ctl.c = "err" THEN Append(reported, ctl) ELSE reported
    /\ IF Top.data.rest = <<>>
       THEN ctl' = Finished /\ kont' = Pop
       ELSE /\ ctl' = Exec(Head(Top.data.rest))
            /\ kont' = [kont EXCEPT ![Len(kont)].data.rest = Tail(@)]
    /\ UNCHANGED <<program, locals, environment, heap, out, history>>

\* The ? operator: the handler waiting on top returns the Err it received
QuestionMark ==
    /\ ctl.c = "err"
    /\ kont # <<>>
    /\ Top.k \in {"expression_stmt", "print_stmt", "var_stmt", "if_stmt", "while_condition",
                  "return_stmt", "class_stmt", "assign_expr", "binary_left", "binary_right",
                  "call_callee", "call_arguments", "get_expr", "set_object", "set_value",
                  "class_call"}
    /\ kont' = Pop
    /\ UNCHANGED <<program, locals, environment, heap, ctl, out, reported, history>>

-----------------------------------------------------------------------------
(* Interpreter: statements (impl StmtVisitor for Interpreter) *)

\* Interpreter::visit_expression_stmt
Interpreter_visit_expression_stmt ==
    \/ /\ Visiting("stmt", "Expression")
       /\ kont' = Push(Frame("expression_stmt", <<>>))
       /\ ctl' = Eval(ctl.node.expression)
       /\ UNCHANGED <<program, locals, environment, heap, out, reported, history>>
    \/ /\ Resuming("val", "expression_stmt")
       /\ kont' = Pop
       /\ ctl' = Done
       /\ UNCHANGED <<program, locals, environment, heap, out, reported, history>>

\* Interpreter::visit_print_stmt
Interpreter_visit_print_stmt ==
    \/ /\ Visiting("stmt", "Print")
       /\ kont' = Push(Frame("print_stmt", <<>>))
       /\ ctl' = Eval(ctl.node.expression)
       /\ UNCHANGED <<program, locals, environment, heap, out, reported, history>>
    \/ /\ Resuming("val", "print_stmt")
       /\ out' = Append(out, ctl.v)
       /\ kont' = Pop
       /\ ctl' = Done
       /\ UNCHANGED <<program, locals, environment, heap, reported, history>>

\* Interpreter::visit_var_stmt
Interpreter_visit_var_stmt ==
    \/ /\ Visiting("stmt", "Var")
       /\ IF ctl.node.initializer.t # "None"
          THEN /\ kont' = Push(Frame("var_stmt", [name |-> ctl.node.name]))
               /\ ctl' = Eval(ctl.node.initializer)
               /\ envs' = envs
          ELSE /\ envs' = define(envs, environment, ctl.node.name, Nil)
               /\ ctl' = Done
               /\ kont' = kont
       /\ UNCHANGED <<program, locals, environment, instances, out, reported, history>>
    \/ /\ Resuming("val", "var_stmt")
       /\ envs' = define(envs, environment, Top.data.name, ctl.v)
       /\ kont' = Pop
       /\ ctl' = Done
       /\ UNCHANGED <<program, locals, environment, instances, out, reported, history>>

\* A variant of execute_block that puts the environment back only on the
\* normal path and leaves the block's environment current when a statement
\* fails (an early `?` before line 73).
restored_environment_on_ok(result, previous_env) ==
    IF result.c = "err" THEN environment ELSE previous_env

\* The environment Interpreter::execute_block leaves current when it returns
\* `result` (line 73: self.environment = previous_env, on every path).
restored_environment(result, previous_env) == previous_env

\* Interpreter::execute_block, entered with the stack `stack` below it: the
\* block's frame remembers previous_env and the statements still to run.
execute_block(stack, statements, new_env) ==
    /\ environment' = new_env
    /\ kont' = Append(stack, [k |-> "execute_block", env0 |-> new_env,
                              data |-> [previous_env |-> environment,
                                        rest |-> IF statements = <<>> THEN <<>>
                                                 ELSE Tail(statements)]])
    /\ ctl' = IF statements = <<>> THEN Done ELSE Exec(Head(statements))

\* Interpreter::execute_block, after a statement: try_for_each goes on after
\* Ok and stops at the first Err; then the environment is put back
execute_block_step ==
    /\ ctl.c \in {"ok", "err"}
    /\ kont # <<>> /\ Top.k = "execute_block"
    /\ IF ctl.c = "ok" /\ Top.data.rest # <<>>
       THEN /\ ctl' = Exec(Head(Top.data.rest))
            /\ kont' = [kont EXCEPT ![Len(kont)].data.rest = Tail(@)]
            /\ environment' = environment
       ELSE /\ environment' = restored_environment(ctl, Top.data.previous_env)
            /\ kont' = Pop
            /\ ctl' = ctl
    /\ UNCHANGED <<program, locals, heap, out, reported, history>>

\* Interpreter::visit_block_stmt
Interpreter_visit_block_stmt ==
    /\ Visiting("stmt", "Block")
    /\ envs' = new_enclosing(envs, environment)
    /\ execute_block(kont, ctl.node.statements, Len(envs'))
    /\ UNCHANGED <<program, locals, instances, out, reported, history>>

\* Interpreter::visit_if_stmt
Interpreter_visit_if_stmt ==
    \/ /\ Visiting("stmt", "If")
       /\ kont' = Push(Frame("if_stmt", [stmt |-> ctl.node]))
       /\ ctl' = Eval(ctl.node.condition)
       /\ UNCHANGED <<program, locals, environment, heap, out, reported, history>>
    \/ /\ Resuming("val", "if_stmt")
       /\ kont' = Pop
       /\ ctl' = IF is_truthy(ctl.v) THEN Exec(Top.data.stmt.then_branch)
                 ELSE IF Top.data.stmt.else_branch.t # "None"
                      THEN Exec(Top.data.stmt.else_branch)
                 ELSE Done
       /\ UNCHANGED <<program, locals, environment, heap, out, reported, history>>

\* What Interpreter::visit_while_stmt does with the Err `err` of its body:
\* a break signal ends the loop with Ok(()), any other Err is returned.
while_body_error(err) == IF err.kind = "Break" THEN Done ELSE err

\* Interpreter::visit_while_stmt
Interpreter_visit_while_stmt ==
    \/ /\ Visiting("stmt", "While")
       /\ kont' = Push(Frame("while_condition", [stmt |-> ctl.node]))
       /\ ctl' = Eval(ctl.node.condition)
       /\ UNCHANGED <<program, locals, environment, heap, out, reported, history>>
    \/ /\ Resuming("val", "while_condition")
       /\ IF is_truthy(ctl.v)
          THEN /\ kont' = [kont EXCEPT ![Len(kont)].k = "while_body"]
               /\ ctl' = Exec(Top.data.stmt.body)
          ELSE /\ kont' = Pop
               /\ ctl' = Done
       /\ UNCHANGED <<program, locals, environment, heap, out, reported, history>>
    \/ /\ Resuming("ok", "while_body")
       /\ kont' = [kont EXCEPT ![Len(kont)].k = "while_condition"]
       /\ ctl' = Eval(Top.data.stmt.condition)
       /\ UNCHANGED <<program, locals, environment, heap, out, reported, history>>
    \/ /\ Resuming("err", "while_body")
       /\ kont' = Pop
       /\ ctl' = while_body_error(ctl)
       /\ UNCHANGED <<program, locals, environment, heap, out, reported, history>>

\* Interpreter::visit_break_stmt
Interpreter_visit_break_stmt ==
    /\ Visiting("stmt", "Break")
    /\ ctl' = break_signal
    /\ UNCHANGED <<program, locals, environment, heap, kont, out, reported, history>>

\* Interpreter::visit_function_stmt
Interpreter_visit_function_stmt ==
    /\ Visiting("stmt", "Function")
    /\ envs' = define(envs, environment, ctl.node.name,
                      LoxFunction(ctl.node, environment, FALSE))
    /\ ctl' = Done
    /\ UNCHANGED <<program, locals, environment, instances, kont, out, reported, history>>

\* Interpreter::visit_return_stmt
Interpreter_visit_return_stmt ==
    \/ /\ Visiting("stmt", "Return")
       /\ IF ctl.node.value.t # "None"
          THEN /\ kont' = Push(Frame("return_stmt", <<>>))
               /\ ctl' = Eval(ctl.node.value)
          ELSE /\ ctl' = return_signal(Nil)
               /\ kont' = kont
       /\ UNCHANGED <<program, locals, environment, heap, out, reported, history>>
    \/ /\ Resuming("val", "return_stmt")
       /\ kont' = Pop
       /\ ctl' = return_signal(ctl.v)
       /\ UNCHANGED <<program, locals, environment, heap, out, reported, history>>

-----------------------------------------------------------------------------
(* Interpreter: expressions (impl ExprVisitor for Interpreter) *)

\* A variant of look_up_variable that ignores the resolver's distance and walks
\* the chain from the current environment (dynamic lookup by name).
look_up_variable_by_name(name, uid) == get(envs, environment, name)

\* Interpreter::look_up_variable
look_up_variable(name, uid) ==
    IF uid \in DOMAIN locals THEN get_at(envs, environment, locals[uid], name)
    ELSE get(envs, Globals, name)

\* The innermost LoxFunction::call on the stack, 0 when there is none.
CurrentCall ==
    LET S == {i \in 1..Len(kont) : kont[i].k = "function_call"} IN
    IF S = {} THEN 0 ELSE CHOOSE i \in S : \A j \in S : j <= i

\* History of a read inside a call: which frame answered a reference that is
\* free in the called function (the frame is older than the call's own frame).
ReadsWith(result, name, uid) ==
    IF CurrentCall # 0 /\ result.ok /\ result.frame < kont[CurrentCall].data.environment
    THEN reads \cup {[closure |-> kont[CurrentCall].data.function.closure,
                      function |-> kont[CurrentCall].data.function.declaration.name,
                      name |-> name, uid |-> uid, frame |-> result.frame]}
    ELSE reads

\* Interpreter::visit_literal_expr
Interpreter_visit_literal_expr ==
    /\ Visiting("expr", "Literal")
    /\ ctl' = Value(ctl.node.value)
    /\ UNCHANGED <<program, locals, environment, heap, kont, out, reported, history>>

\* Interpreter::visit_variable_expr
Interpreter_visit_variable_expr ==
    /\ Visiting("expr", "Variable")
    /\ LET result == look_up_variable(ctl.node.name, ctl.node.uid) IN
       /\ ctl' = Returned(result)
       /\ reads' = ReadsWith(result, ctl.node.name, ctl.node.uid)
    /\ UNCHANGED <<program, locals, environment, heap, kont, out, reported, lastCall, lastGet>>

\* Interpreter::visit_this_expr : resolved like a variable named "this"
Interpreter_visit_this_expr ==
    /\ Visiting("expr", "This")
    /\ LET result == look_up_variable("this", ctl.node.uid) IN
       /\ ctl' = Returned(result)
       /\ reads' = ReadsWith(result, ctl.node.name, ctl.node.uid)
    /\ UNCHANGED <<program, locals, environment, heap, kont, out, reported, lastCall, lastGet>>

\* Interpreter::visit_assign_expr
Interpreter_visit_assign_expr ==
    \/ /\ Visiting("expr", "Assign")
       /\ kont' = Push(Frame("assign_expr", [expr |-> ctl.node]))
       /\ ctl' = Eval(ctl.node.value)
       /\ UNCHANGED <<program, locals, environment, heap, out, reported, history>>
    \/ /\ Resuming("val", "assign_expr")
       /\ LET expr == Top.data.expr
              result == IF expr.uid \in DOMAIN locals
                        THEN assign_at(envs, environment, locals[expr.uid], expr.name, ctl.v)
                        ELSE assign(envs, Globals, expr.name, ctl.v)
          IN /\ envs' = IF result.ok THEN result.v ELSE envs
             /\ ctl' = IF result.ok THEN ctl ELSE Returned(result)
       /\ kont' = Pop
       /\ UNCHANGED <<program, locals, environment, instances, out, reported, history>>

\* impl PartialEq for Object
Object_eq(left, right) ==
    CASE left.t = "String" /\ right.t = "String" -> left.s = right.s
      [] left.t = "Number" /\ right.t = "Number" -> left.n = right.n
      [] left.t = "Bool" /\ right.t = "Bool" -> left.b = right.b
      [] left.t = "Nil" /\ right.t = "Nil" -> TRUE
      [] OTHER -> FALSE

\* A variant of Add that concatenates two Strings only and rejects a String
\* with a Number.
Object_add_same_variant(left, right) ==
    CASE left.t = "Number" /\ right.t = "Number" -> Ok(Number(left.n + right.n))
      [] left.t = "String" /\ right.t = "String" -> Ok(String(left.s \o right.s))
      [] OTHER -> Err("Operands must be strings or numbers for '+' operation.")

\* impl Add for Object
Object_add(left, right) ==
    CASE left.t = "Number" /\ right.t = "Number" -> Ok(Number(left.n + right.n))
      [] left.t = "String" /\ right.t = "String" -> Ok(String(left.s \o right.s))
      [] left.t = "String" /\ right.t = "Number" -> Ok(String(left.s \o ToString(right.n)))
      [] left.t = "Number" /\ right.t = "String" -> Ok(String(ToString(left.n) \o right.s))
      [] OTHER -> Err("Operands must be strings or numbers for '+' operation.")

\* impl Sub for Object
Object_sub(left, right) ==
    IF left.t = "Number" /\ right.t = "Number" THEN Ok(Number(left.n - right.n))
    ELSE Err("Operands must be numbers for '-' operation.")

\* impl Mul for Object
Object_mul(left, right) ==
    IF left.t = "Number" /\ right.t = "Number" THEN Ok(Number(left.n * right.n))
    ELSE Err("Operands must be numbers for '*' operation.")

RECURSIVE Gcd(_, _)
Gcd(a, b) == IF b = 0 THEN a ELSE Gcd(b, a % b)

\* left / right of two f64 that hold integers, right # 0: the integer when
\* the division is exact, otherwise the fraction in lowest terms.
Quotient(left, right) ==
    LET a == IF left < 0 THEN -left ELSE left
        b == IF right < 0 THEN -right ELSE right
        sign == IF (left < 0) = (right < 0) THEN 1 ELSE -1
        g == Gcd(a, b)
    IN IF a % b = 0 THEN sign * (a \div b)
       ELSE [num |-> sign * (a \div g), den |-> b \div g]

\* impl Div for Object : x / 0 is infinite or NaN, which is the error
Object_div(left, right) ==
    IF left.t = "Number" /\ right.t = "Number"
    THEN IF right.n = 0
         THEN Err("Illegal expression. Division by zero is not allowed.")
         ELSE Ok(Number(Quotient(left.n, right.n)))
    ELSE Err("Operands must be numbers for '/' operation.")

\* the match on the operator of Interpreter::visit_binary_expr
binary(operator, left, right) ==
    CASE operator = "-" -> Object_sub(left, right)
      [] operator = "+" -> Object_add(left, right)
      [] operator = "/" -> Object_div(left, right)
      [] operator = "*" -> Object_mul(left, right)
      [] operator = ">" ->
            IF left.t = "Number" /\ right.t = "Number" THEN Ok(Bool(left.n > right.n))
            ELSE Err("Operands must be numbers for '>' operation.")
      [] operator = ">=" ->
            IF left.t = "Number" /\ right.t = "Number" THEN Ok(Bool(left.n >= right.n))
            ELSE Err("Operands must be numbers for '>=' operation.")
      [] operator = "<" ->
            IF left.t = "Number" /\ right.t = "Number" THEN Ok(Bool(left.n < right.n))
            ELSE Err("Operands must be numbers for '<' operation.")
      [] operator = "<=" ->
            IF left.t = "Number" /\ right.t = "Number" THEN Ok(Bool(left.n <= right.n))
            ELSE Err("Operands must be numbers for '<=' operation.")
      [] operator = "!=" -> Ok(Bool(~Object_eq(left, right)))
      [] operator = "==" -> Ok(Bool(Object_eq(left, right)))
      [] OTHER -> Err("Unsupported binary operation.")

\* Interpreter::visit_binary_expr
Interpreter_visit_binary_expr ==
    \/ /\ Visiting("expr", "Binary")
       /\ kont' = Push(Frame("binary_left", [expr |-> ctl.node]))
       /\ ctl' = Eval(ctl.node.left)
       /\ UNCHANGED <<program, locals, environment, heap, out, reported, history>>
    \/ /\ Resuming("val", "binary_left")
       /\ kont' = [kont EXCEPT ![Len(kont)].k = "binary_right",
                               ![Len(kont)].data = [expr |-> Top.data.expr, left |-> ctl.v]]
       /\ ctl' = Eval(Top.data.expr.right)
       /\ UNCHANGED <<program, locals, environment, heap, out, reported, history>>
    \/ /\ Resuming("val", "binary_right")
       /\ kont' = Pop
       /\ ctl' = Returned(binary(Top.data.expr.operator, Top.data.left, ctl.v))
       /\ UNCHANGED <<program, locals, environment, heap, out, reported, history>>

\* Interpreter::visit_call_expr : the callee, then the arguments from left to
\* right, then the match on the callee
Interpreter_visit_call_expr ==
    \/ /\ Visiting("expr", "Call")
       /\ kont' = Push(Frame("call_callee", [expr |-> ctl.node]))
       /\ ctl' = Eval(ctl.node.callee)
       /\ UNCHANGED <<program, locals, environment, heap, out, reported, history>>
    \/ /\ Resuming("val", "call_callee")
       /\ IF Top.data.expr.arguments = <<>>
          THEN /\ kont' = Pop
               /\ ctl' = [c |-> "call", callee |-> ctl.v, arguments |-> <<>>]
          ELSE /\ kont' = [kont EXCEPT ![Len(kont)].k = "call_arguments",
                                       ![Len(kont)].data =
                                           [expr |-> Top.data.expr, callee |-> ctl.v,
                                            arguments |-> <<>>]]
               /\ ctl' = Eval(Top.data.expr.arguments[1])
       /\ UNCHANGED <<program, locals, environment, heap, out, reported, history>>
    \/ /\ Resuming("val", "call_arguments")
       /\ LET arguments == Append(Top.data.arguments, ctl.v) IN
          IF Len(arguments) < Len(Top.data.expr.arguments)
          THEN /\ kont' = [kont EXCEPT ![Len(kont)].data.arguments = arguments]
               /\ ctl' = Eval(Top.data.expr.arguments[Len(arguments) + 1])
          ELSE /\ kont' = Pop
               /\ ctl' = [c |-> "call", callee |-> Top.data.callee, arguments |-> arguments]
       /\ UNCHANGED <<program, locals, environment, heap, out, reported, history>>
    \/ /\ ctl.c = "call"
       /\ ctl.callee.t \notin {"Function", "NativeFunction", "Class"}
       /\ ctl' = interpreter_error("Can only call functions and classes.")
       /\ UNCHANGED <<program, locals, environment, heap, kont, out, reported, history>>

-----------------------------------------------------------------------------
(* Callables (lox_function.rs, lox_class.rs, lox_instance.rs,               *)
(* lox_native_function.rs)                                                  *)

NoFunction == [t |-> "None"]

\* LoxFunction::arity
LoxFunction_arity(function) == Len(function.declaration.params)

\* LoxNativeFunction::arity
LoxNativeFunction_arity(native_function) == 0

\* LoxClass::find_method
find_method(class, name) ==
    IF name \in DOMAIN class.methods THEN class.methods[name] ELSE NoFunction

\* LoxClass::arity
LoxClass_arity(class) ==
    IF find_method(class, "init").t # "None"
    THEN LoxFunction_arity(find_method(class, "init"))
    ELSE 0

\* LoxCallable::arity of a callee
arity(callee) ==
    CASE callee.t = "Function" -> LoxFunction_arity(callee)
      [] callee.t = "NativeFunction" -> LoxNativeFunction_arity(callee)
      [] callee.t = "Class" -> LoxClass_arity(callee)

\* LoxCallable::check_arity (the three impls differ in the message only)
check_arity(callee, args_len) ==
    IF args_len # arity(callee) THEN Err("Expected N arguments but got M.") ELSE Ok(Nil)

\* LoxFunction::bind : the heap with the new frame that holds `this`, and the
\* function whose closure that frame is
bind(h, function, instance) ==
    LET h1 == new_enclosing(h, function.closure) IN
    [envs |-> define(h1, Len(h1), "this", ClassInstance(instance)),
     function |-> LoxFunction(function.declaration, Len(h1), function.is_initializer)]

RECURSIVE define_params(_, _, _, _)
\* the parameter loop of LoxFunction::call
define_params(h, e, params, arguments) ==
    IF params = <<>> THEN h
    ELSE define_params(define(h, e, Head(params), Head(arguments)), e,
                       Tail(params), Tail(arguments))

\* A variant of the start of LoxFunction::call in which the frame of the call
\* encloses a copy of the closure.
LoxFunction_enter_copy(stack, h, function, arguments) ==
    LET h0 == Append(h, h[function.closure])
        h1 == new_enclosing(h0, Len(h0))
        h2 == define_params(h1, Len(h1), function.declaration.params, arguments)
    IN /\ envs' = h2
       /\ execute_block(Append(stack, Frame("function_call",
                                            [function |-> function, environment |-> Len(h1),
                                             arguments |-> arguments])),
                        function.declaration.body, Len(h1))

\* LoxFunction::call, lines 50-59: the frame of the call encloses the closure,
\* holds the parameters, and the body runs in it as a block
LoxFunction_enter(stack, h, function, arguments) ==
    LET h1 == new_enclosing(h, function.closure)
        h2 == define_params(h1, Len(h1), function.declaration.params, arguments)
    IN /\ envs' = h2
       /\ execute_block(Append(stack, Frame("function_call",
                                            [function |-> function, environment |-> Len(h1),
                                             arguments |-> arguments])),
                        function.declaration.body, Len(h1))

\* A variant of the end of LoxFunction::call that drops the value carried by a
\* return signal.
LoxFunction_result_nil(function, body) ==
    IF body.c = "err" /\ body.kind # "Return" THEN body ELSE Value(Nil)

\* LoxFunction::call, lines 59-73: the value of the call from the Result of the
\* body
LoxFunction_result(function, body) ==
    LET this == get_at(envs, function.closure, 0, "this") IN
    IF body.c = "ok"
    THEN IF function.is_initializer /\ ~this.ok THEN Returned(this) ELSE Value(Nil)
    ELSE IF body.kind = "Return"
    THEN IF function.is_initializer /\ ~this.ok THEN Returned(this) ELSE Value(body.value)
    ELSE body

\* LoxFunction::check_arity and LoxFunction::call
LoxFunction_call ==
    \/ /\ ctl.c = "call" /\ ctl.callee.t = "Function"
       /\ IF check_arity(ctl.callee, Len(ctl.arguments)).ok
          THEN LoxFunction_enter(kont, envs, ctl.callee, ctl.arguments)
          ELSE /\ ctl' = Returned(check_arity(ctl.callee, Len(ctl.arguments)))
               /\ UNCHANGED <<environment, envs, kont>>
       /\ UNCHANGED <<program, locals, instances, out, reported, history>>
    \/ /\ ctl.c \in {"ok", "err"}
       /\ kont # <<>> /\ Top.k = "function_call"
       /\ ctl' = LoxFunction_result(Top.data.function, ctl)
       /\ lastCall' = [c |-> "call", function |-> Top.data.function,
                       environment |-> Top.data.environment, body |-> ctl, result |-> ctl',
                       by |-> IF Len(kont) > 1 /\ kont[Len(kont) - 1].k = "class_call"
                              THEN "constructing" ELSE "call"]
       /\ kont' = Pop
       /\ UNCHANGED <<program, locals, environment, heap, out, reported, reads, lastGet>>

\* LoxNativeFunction::check_arity and LoxNativeFunction::call (clock: the
\* host's reading of the time)
LoxNativeFunction_call ==
    /\ ctl.c = "call" /\ ctl.callee.t = "NativeFunction"
    /\ IF check_arity(ctl.callee, Len(ctl.arguments)).ok
       THEN \E timestamp \in 0..MaxClock : ctl' = Value(Number(timestamp))
       ELSE ctl' = Returned(check_arity(ctl.callee, Len(ctl.arguments)))
    /\ UNCHANGED <<program, locals, environment, heap, kont, out, reported, history>>

\* LoxInstance::new
LoxInstance_new(class) == [class |-> class, fields |-> EmptyMap]

\* LoxClass::check_arity and LoxClass::call
LoxClass_call ==
    \/ /\ ctl.c = "call" /\ ctl.callee.t = "Class"
       /\ IF check_arity(ctl.callee, Len(ctl.arguments)).ok
          THEN LET instance == Len(instances) + 1
                   initializer == find_method(ctl.callee, "init")
               IN /\ instances' = Append(instances, LoxInstance_new(ctl.callee))
                  /\ IF initializer.t # "None"
                     THEN LET bound == bind(envs, initializer, instance) IN
                          LoxFunction_enter(
                              Push(Frame("class_call", [instance |-> instance])),
                              bound.envs, bound.function, ctl.arguments)
                     ELSE /\ ctl' = Value(ClassInstance(instance))
                          /\ UNCHANGED <<environment, envs, kont>>
          ELSE /\ ctl' = Returned(check_arity(ctl.callee, Len(ctl.arguments)))
               /\ UNCHANGED <<environment, envs, instances, kont>>
       /\ UNCHANGED <<program, locals, out, reported, history>>
    \/ /\ Resuming("val", "class_call")
       /\ ctl' = Value(ClassInstance(Top.data.instance))
       /\ lastCall' = IF lastCall.c = "call" /\ lastCall.by = "constructing"
                      THEN [lastCall EXCEPT !.by = "class", !.result = ctl']
                      ELSE lastCall
       /\ kont' = Pop
       /\ UNCHANGED <<program, locals, environment, heap, out, reported, reads, lastGet>>

\* LoxInstance::get
LoxInstance_get(instance, name) ==
    IF name \in DOMAIN instances[instance].fields
    THEN Ok(instances[instance].fields[name])
    ELSE IF find_method(instances[instance].class, name).t # "None"
    THEN Ok(find_method(instances[instance].class, name))
    ELSE Err("Undefined property")

\* LoxInstance::set
LoxInstance_set(instance, name, value) ==
    [instances EXCEPT ![instance].fields = (name :> value) @@ @]

\* Interpreter::visit_get_expr
Interpreter_visit_get_expr ==
    \/ /\ Visiting("expr", "Get")
       /\ kont' = Push(Frame("get_expr", [expr |-> ctl.node]))
       /\ ctl' = Eval(ctl.node.object)
       /\ UNCHANGED <<program, locals, environment, heap, out, reported, history>>
    \/ /\ Resuming("val", "get_expr")
       /\ kont' = Pop
       /\ IF ctl.v.t = "ClassInstance"
          THEN /\ ctl' = Returned(LoxInstance_get(ctl.v.id, Top.data.expr.name))
               /\ lastGet' = [c |-> "get", instance |-> ctl.v.id,
                              name |-> Top.data.expr.name, result |-> ctl']
          ELSE /\ ctl' = interpreter_error("Only instances have properties.")
               /\ lastGet' = lastGet
       /\ UNCHANGED <<program, locals, environment, heap, out, reported, reads, lastCall>>

\* Interpreter::visit_set_expr : the object, which must be an instance, then
\* the value, then LoxInstance::set
Interpreter_visit_set_expr ==
    \/ /\ Visiting("expr", "Set")
       /\ kont' = Push(Frame("set_object", [expr |-> ctl.node]))
       /\ ctl' = Eval(ctl.node.object)
       /\ UNCHANGED <<program, locals, environment, heap, out, reported, history>>
    \/ /\ Resuming("val", "set_object")
       /\ IF ctl.v.t = "ClassInstance"
          THEN /\ kont' = [kont EXCEPT ![Len(kont)].k = "set_value",
                                       ![Len(kont)].data =
                                           [expr |-> Top.data.expr, instance |-> ctl.v.id]]
               /\ ctl' = Eval(Top.data.expr.value)
          ELSE /\ kont' = Pop
               /\ ctl' = interpreter_error("Only instances have fields.")
       /\ UNCHANGED <<program, locals, environment, heap, out, reported, history>>
    \/ /\ Resuming("val", "set_value")
       /\ instances' = LoxInstance_set(Top.data.instance, Top.data.expr.name, ctl.v)
       /\ kont' = Pop
       /\ UNCHANGED <<program, locals, environment, envs, ctl, out, reported, history>>

\* The method map of a class statement: each declaration as a function whose
\* closure is `closure`; the one named init is the initializer.
class_methods(methods, closure) ==
    [name \in {methods[i].name : i \in DOMAIN methods} |->
        LET S == {i \in DOMAIN methods : methods[i].name = name}
            last == CHOOSE i \in S : \A j \in S : j <= i
        IN LoxFunction(methods[last], closure, name = "init")]

\* The class statement once its superclass (NoClass when it has none) is
\* known: the methods close over the current frame, or over a new frame that
\* holds `super`; the class is assigned to the name defined as Nil before.
define_class(h, stmt, super_class) ==
    LET h1 == IF super_class.t = "None" THEN h
              ELSE define(new_enclosing(h, environment), Len(h) + 1,
                          "super", super_class)
        closure == IF super_class.t = "None" THEN environment ELSE Len(h1)
        class == LoxClass(stmt.name, super_class, class_methods(stmt.methods, closure))
    IN assign(h1, environment, stmt.name, class)

\* Interpreter::visit_class_stmt
Interpreter_visit_class_stmt ==
    \/ /\ Visiting("stmt", "Class")
       /\ ctl.node.super_class.t = "None"
       /\ envs' = define_class(define(envs, environment, ctl.node.name, Nil),
                                ctl.node, NoClass).v
       /\ ctl' = Done
       /\ UNCHANGED <<program, locals, environment, instances, kont, out, reported, history>>
    \/ /\ Visiting("stmt", "Class")
       /\ ctl.node.super_class.t # "None"
       /\ envs' = define(envs, environment, ctl.node.name, Nil)
       /\ kont' = Push(Frame("class_stmt", [stmt |-> ctl.node]))
       /\ ctl' = Eval(ctl.node.super_class)
       /\ UNCHANGED <<program, locals, environment, instances, out, reported, history>>
    \/ /\ Resuming("val", "class_stmt")
       /\ kont' = Pop
       /\ IF ctl.v.t = "Class"
          THEN /\ envs' = define_class(envs, Top.data.stmt, ctl.v).v
               /\ ctl' = Done
          ELSE /\ envs' = envs
               /\ ctl' = interpreter_error("Superclass must be a class.")
       /\ UNCHANGED <<program, locals, environment, instances, out, reported, history>>

-----------------------------------------------------------------------------

Next ==
    \/ Run
    \/ interpret
    \/ QuestionMark
    \/ Interpreter_visit_expression_stmt
    \/ Interpreter_visit_print_stmt
    \/ Interpreter_visit_var_stmt
    \/ Interpreter_visit_block_stmt
    \/ execute_block_step
    \/ Interpreter_visit_if_stmt
    \/ Interpreter_visit_while_stmt
    \/ Interpreter_visit_break_stmt
    \/ Interpreter_visit_function_stmt
    \/ Interpreter_visit_return_stmt
    \/ Interpreter_visit_class_stmt
    \/ Interpreter_visit_literal_expr
    \/ Interpreter_visit_variable_expr
    \/ Interpreter_visit_this_expr
    \/ Interpreter_visit_assign_expr
    \/ Interpreter_visit_binary_expr
    \/ Interpreter_visit_call_expr
    \/ Interpreter_visit_get_expr
    \/ Interpreter_visit_set_expr
    \/ LoxFunction_call
    \/ LoxNativeFunction_call
    \/ LoxClass_call

Spec == Init /\ [][Next]_vars

-----------------------------------------------------------------------------
(* Properties *)

\* The frame `distance` links out from e, NoEnv when the chain is shorter.
RECURSIVE frame_at(_, _, _)
frame_at(h, e, distance) ==
    IF e = NoEnv THEN NoEnv
    ELSE IF distance = 0 THEN e
    ELSE frame_at(h, h[e].enclosing, distance - 1)

BindsAt(e, distance, name) ==
    LET frame == frame_at(envs, e, distance) IN
    frame # NoEnv /\ name \in DOMAIN envs[frame].values

C2_StaticScoping ==
    /\ \A r1, r2 \in reads :
          (r1.closure = r2.closure /\ r1.function = r2.function /\ r1.uid = r2.uid)
          => r1.frame = r2.frame
    /\ (Programs[program] = ClosureScope /\ ctl.c = "finished")
       => out = <<String("global"), String("global")>>

\* C2 happens: a function read its free variable from an outer frame although
\* the block that declares the function has since declared the same name.
C2_Witness ==
    /\ Len(out) = 2
    /\ \E r \in reads : r.frame < r.closure /\ r.name \in DOMAIN envs[r.closure].values

\* C3: whenever a statement or expression has returned to the handler that
\* started it, normally or with an error, a break or a return signal, the
\* current environment is the one that was current when it started; before and
\* after every top-level statement, and at the end, it is the global one.
C3_EnvironmentRestored ==
    /\ (ctl.c \in {"val", "ok", "err"} /\ kont # <<>>) => environment = Top.env0
    /\ (kont # <<>> /\ Top.k = "interpret") => environment = Globals
    /\ ctl.c = "finished" => environment = Globals

\* C3 happens: a return signal has left blocks nested in a function body and
\* arrived at the call, whose environment is current again.
C3_Witness ==
    /\ Resuming("err", "function_call")
    /\ ctl.kind = "Return"
    /\ Len(envs) > Top.data.environment
    /\ environment = Top.env0

\* The state in which LoxFunction::call has just started the body of the call
\* whose frame is kont[i].
EntersBody(i) ==
    /\ kont[i].k = "function_call"
    /\ i + 1 = Len(kont) /\ Top.k = "execute_block"
    /\ kont[i].data.function.declaration.body # <<>>
    /\ ctl = Exec(Head(kont[i].data.function.declaration.body))
    /\ Top.data.rest = Tail(kont[i].data.function.declaration.body)

\* C4: a call of a user function (not an initializer) runs the body in a fresh
\* environment whose parent is the function's closure and in which each
\* parameter is bound to its argument; the call yields Nil when the body
\* completes, the value of the return signal when the body returns, and the
\* runtime error unchanged when the body fails. No statement runs after the
\* first return: the function that returns from inside its loops prints the
\* returned count only.
C4_FunctionCall ==
    /\ \A i \in 1..Len(kont) : kont[i].k = "function_call" =>
          LET function == kont[i].data.function
              call_env == kont[i].data.environment
              params == function.declaration.params
          IN /\ envs[call_env].enclosing = function.closure
             /\ \A j \in 1..Len(params) : params[j] \in DOMAIN envs[call_env].values
             /\ EntersBody(i) =>
                   /\ environment = call_env
                   /\ \A j \in 1..Len(params) :
                         envs[call_env].values[params[j]] = kont[i].data.arguments[j]
    /\ (lastCall.c = "call" /\ ~lastCall.function.is_initializer) =>
          /\ lastCall.body.c = "ok" => lastCall.result = Value(Nil)
          /\ (lastCall.body.c = "err" /\ lastCall.body.kind = "Return")
             => lastCall.result = Value(lastCall.body.value)
          /\ (lastCall.body.c = "err" /\ lastCall.body.kind = "Interpreter")
             => lastCall.result = lastCall.body
    /\ (Programs[program] = ReturnFromLoop /\ ctl.c = "finished")
       => out = <<Number(MaxIter)>>

\* C4 happens: a call whose body returned a value other than nil has yielded
\* that value, and the value has been printed.
C4_Witness ==
    /\ lastCall.c = "call" /\ ~lastCall.function.is_initializer
    /\ lastCall.body.c = "err" /\ lastCall.body.kind = "Return"
    /\ lastCall.body.value # Nil
    /\ lastCall.function.declaration.params # <<>>
    /\ out # <<>>

RECURSIVE MethodOnChain(_, _)
MethodOnChain(class, name) ==
    IF class.t # "Class" THEN NoFunction
    ELSE IF name \in DOMAIN class.methods THEN class.methods[name]
    ELSE MethodOnChain(class.super_class, name)

-----------------------------------------------------------------------------
(* The arity check of a call, over callees of every kind *)

ParamNames == << "a", "b", "c", "d", "e", "f" >>

\* A function declaration with n parameters and an empty body.
Declaration(name, n) == Function(name, SubSeq(ParamNames, 1, n), <<>>)

\* The callable values: functions, native functions and classes with and
\* without an initializer, of every arity up to MaxArity.
Callees ==
    {LoxFunction(Declaration("f", n), Globals, FALSE) : n \in 0..MaxArity}
    \cup {NativeFunction("native", n) : n \in 0..MaxArity}
    \cup {LoxClass("K", NoClass, EmptyMap)}
    \cup {LoxClass("K", NoClass, "init" :> LoxFunction(Declaration("init", n), Globals, TRUE)) :
            n \in 0..MaxArity}

\* Interpreter::visit_call_expr has evaluated a callee and its arguments.
InitArity ==
    /\ program = 0
    /\ locals = EmptyMap
    /\ environment = Globals
    /\ envs = << [values |-> ("clock" :> NativeFunction("clock", 0)), enclosing |-> NoEnv] >>
    /\ instances = <<>>
    /\ \E callee \in Callees, n \in 0..(MaxArity + 1) :
          ctl = [c |-> "call", callee |-> callee, arguments |-> [i \in 1..n |-> Nil]]
    /\ kont = <<>>
    /\ out = <<>>
    /\ reported = <<>>
    /\ reads = {}
    /\ lastCall = [c |-> "none"]
    /\ lastGet = [c |-> "none"]

\* LoxCallable::check_arity, the first step of each impl of LoxCallable::call
CheckArity ==
    /\ ctl.c = "call"
    /\ ctl' = [c |-> "checked", callee |-> ctl.callee, arguments |-> ctl.arguments,
               result |-> check_arity(ctl.callee, Len(ctl.arguments))]
    /\ UNCHANGED <<program, locals, environment, heap, kont, out, reported, history>>

SpecArity == InitArity /\ [][CheckArity]_vars

\* The arity a callee declares: a function's parameter count, a native
\* function's arity field, the parameter count of a class's init or 0.
DeclaredArity(callee) ==
    CASE callee.t = "Function" -> Len(callee.declaration.params)
      [] callee.t = "NativeFunction" -> callee.arity
      [] callee.t = "Class" ->
            IF "init" \in DOMAIN callee.methods
            THEN Len(callee.methods["init"].declaration.params)
            ELSE 0

C13_RuntimeErrorStopsProgram ==
    (\E i \in 1..Len(reported) : reported[i].kind = "Interpreter") => ctl.c = "finished"

-----------------------------------------------------------------------------
(* The binary operators, over operands of every variant *)

Operators == {"-", "*", "/", "+", ">", ">=", "<", "<=", "!=", "=="}

Scalars ==
    {Number(n) : n \in 0..MaxNumber} \cup {String(""), String("a"), String("1")}
    \cup {Bool(TRUE), Bool(FALSE), Nil}

\* Values with an identity: functions, a native function, classes, instances.
HeapValues ==
    {LoxFunction(Declaration("f", 0), Globals, FALSE),
     LoxFunction(Declaration("g", 0), Globals, FALSE),
     NativeFunction("clock", 0),
     LoxClass("K", NoClass, EmptyMap), LoxClass("L", NoClass, EmptyMap),
     ClassInstance(1), ClassInstance(2)}

\* Interpreter::visit_binary_expr has evaluated both operands.
InitBinary ==
    /\ program = 0
    /\ locals = EmptyMap
    /\ environment = Globals
    /\ envs = << [values |-> ("clock" :> NativeFunction("clock", 0)), enclosing |-> NoEnv] >>
    /\ instances = <<>>
    /\ \E operator \in Operators, left, right \in Scalars \cup HeapValues :
          ctl = [c |-> "binary", operator |-> operator, left |-> left, right |-> right]
    /\ kont = <<>>
    /\ out = <<>>
    /\ reported = <<>>
    /\ reads = {}
    /\ lastCall = [c |-> "none"]
    /\ lastGet = [c |-> "none"]

\* Interpreter::visit_binary_expr : the match on the operator
MatchOperator ==
    /\ ctl.c = "binary"
    /\ ctl' = [c |-> "binary_result", operator |-> ctl.operator, left |-> ctl.left,
               right |-> ctl.right, result |-> binary(ctl.operator, ctl.left, ctl.right)]
    /\ UNCHANGED <<program, locals, environment, heap, kont, out, reported, history>>

SpecBinary == InitBinary /\ [][MatchOperator]_vars

\* What the language calls equal: scalars of one variant with equal values,
\* nil and nil, a value with an identity and itself.
SameValue(left, right) ==
    /\ left.t = right.t
    /\ left = right

\* C19: == yields true exactly for two scalars of the same variant with equal
\* values, two Nils, or one heap identity compared with itself; operands of
\* different variants are never equal; != is the negation of ==.
C19_EqualityByValueOrIdentity ==
    ctl.c = "binary_result" =>
       /\ ctl.operator = "==" => ctl.result = Ok(Bool(SameValue(ctl.left, ctl.right)))
       /\ ctl.operator = "!=" => ctl.result = Ok(Bool(~SameValue(ctl.left, ctl.right)))

\* The textual form of a Number or String operand of +.
TextOf(value) == IF value.t = "Number" THEN ToString(value.n) ELSE value.s

\* C20: on operands that are Numbers, Strings, Bools or Nil, - * / < <= > >=
\* succeed only for two Numbers; + succeeds exactly when each operand is a
\* Number or a String, adding two Numbers and otherwise concatenating the
\* textual forms in operand order; every other combination is an error that
\* names the operator and says "Operands must be"; a zero divisor is an error.
C20_OperandTypes ==
    (ctl.c = "binary_result" /\ ctl.left \in Scalars /\ ctl.right \in Scalars) =>
       LET op == ctl.operator
           numbers == ctl.left.t = "Number" /\ ctl.right.t = "Number"
           texts == ctl.left.t \in {"Number", "String"} /\ ctl.right.t \in {"Number", "String"}
       IN /\ op \in {"-", "*", "<", "<=", ">", ">="} => (ctl.result.ok <=> numbers)
          /\ op = "/" => (ctl.result.ok <=> (numbers /\ ctl.right.n # 0))
          /\ op = "+" =>
                /\ ctl.result.ok <=> texts
                /\ numbers => ctl.result = Ok(Number(ctl.left.n + ctl.right.n))
                /\ (texts /\ ~numbers)
                   => ctl.result = Ok(String(TextOf(ctl.left) \o TextOf(ctl.right)))
          /\ (op \in {"-", "*", "/", "<", "<=", ">", ">="} /\ ~numbers)
             => ctl.result = Err("Operands must be numbers for '" \o op \o "' operation.")
          /\ (op = "+" /\ ~texts)
             => ctl.result = Err("Operands must be strings or numbers for '+' operation.")

\* C20 happens: a Number and a String have been concatenated in operand order.
C20_Witness ==
    /\ ctl.c = "binary_result" /\ ctl.operator = "+"
    /\ ctl.left = Number(1) /\ ctl.right = String("a")
    /\ ctl.result = Ok(String("1a"))

-----------------------------------------------------------------------------
(* Scanner (scanner.rs). A source is a sequence of characters, each a string
   of length one; start and current count from 0 as in the code. *)

Digits == {"0", "1", "2", "3", "4", "5", "6", "7", "8", "9"}

Letters ==
    {"a", "b", "c", "d", "e", "f", "g", "h", "i", "j", "k", "l", "m", "n", "o", "p", "q",
     "r", "s", "t", "u", "v", "w", "x", "y", "z", "A", "B", "C", "D", "E", "F", "G", "H",
     "I", "J", "K", "L", "M", "N", "O", "P", "Q", "R", "S", "T", "U", "V", "W", "X", "Y", "Z"}

\* The character '\0' that peek and peek_next return at the end.
NUL == "NUL"

\* Token::new
Token(token_type, lexeme, literal, line) ==
    [token_type |-> token_type, lexeme |-> lexeme, literal |-> literal, line |-> line]

\* Scanner::new ; panic records an index outside the source, errors is what
\* scan_tokens has reported
Scanner_new(source) ==
    [source |-> source, tokens |-> <<>>, start |-> 0, current |-> 0, line |-> 1,
     column |-> 0, panic |-> FALSE, errors |-> <<>>]

\* Scanner::is_at_end
Scanner_is_at_end(sc) == sc.current >= Len(sc.source)

\* self.source[i]
InSource(sc, i) == i >= 0 /\ i < Len(sc.source)

\* A variant of match_next_with that does not look for the end of the source
\* before it indexes it.
Scanner_match_next_with_unguarded(sc, expected) ==
    IF ~InSource(sc, sc.current) THEN [sc |-> [sc EXCEPT !.panic = TRUE], matched |-> FALSE]
    ELSE IF sc.source[sc.current + 1] # expected THEN [sc |-> sc, matched |-> FALSE]
    ELSE [sc |-> [sc EXCEPT !.current = @ + 1, !.column = @ + 1], matched |-> TRUE]

\* Scanner::match_next_with
Scanner_match_next_with(sc, expected) ==
    IF Scanner_is_at_end(sc) \/ sc.source[sc.current + 1] # expected
    THEN [sc |-> sc, matched |-> FALSE]
    ELSE [sc |-> [sc EXCEPT !.current = @ + 1, !.column = @ + 1], matched |-> TRUE]

\* Scanner::peek
Scanner_peek(sc) == IF Scanner_is_at_end(sc) THEN NUL ELSE sc.source[sc.current + 1]

\* Scanner::peek_next
Scanner_peek_next(sc) ==
    IF sc.current + 1 >= Len(sc.source) THEN NUL ELSE sc.source[sc.current + 2]

\* Scanner::advance : at the end it reads the character before current
Scanner_advance(sc) ==
    LET i == IF sc.current >= Len(sc.source) THEN sc.current - 1 ELSE sc.current IN
    [sc |-> [sc EXCEPT !.current = @ + 1, !.column = @ + 1,
                       !.panic = @ \/ ~InSource(sc, i)],
     char |-> IF InSource(sc, i) THEN sc.source[i + 1] ELSE NUL]

\* the characters of a sequence as one String
RECURSIVE Collect(_)
Collect(chars) == IF chars = <<>> THEN "" ELSE Head(chars) \o Collect(Tail(chars))

\* self.source[from..to] ; a range that is not inside the source panics
Slice(sc, from, to) ==
    IF from <= to /\ to <= Len(sc.source) THEN SubSeq(sc.source, from + 1, to) ELSE <<>>

SlicePanics(sc, from, to) == ~(from <= to /\ to <= Len(sc.source))

\* Scanner::add_token_literal
Scanner_add_token_literal(sc, token_type, literal) ==
    [sc EXCEPT !.tokens = Append(@, Token(token_type, Collect(Slice(sc, sc.start, sc.current)),
                                          literal, sc.line)),
               !.panic = @ \/ SlicePanics(sc, sc.start, sc.current)]

\* Scanner::add_token
Scanner_add_token(sc, token_type) == Scanner_add_token_literal(sc, token_type, Nil)

\* Scanner::scan_block_comment ; ok is FALSE for Err("Unterminated block comment.")
RECURSIVE Scanner_scan_block_comment(_)
Scanner_scan_block_comment(sc) ==
    IF Scanner_is_at_end(sc) THEN [sc |-> sc, ok |-> FALSE, msg |-> "Unterminated block comment."]
    ELSE
    LET star == Scanner_match_next_with(sc, "*")
        close == IF star.matched THEN Scanner_match_next_with(star.sc, "/") ELSE star
    IN IF close.matched THEN [sc |-> close.sc, ok |-> TRUE, msg |-> ""]
       ELSE
       LET slash == Scanner_match_next_with(close.sc, "/")
           open == IF slash.matched THEN Scanner_match_next_with(slash.sc, "*") ELSE slash
       IN IF open.matched
          THEN LET nested == Scanner_scan_block_comment(open.sc) IN
               IF nested.ok THEN Scanner_scan_block_comment(nested.sc) ELSE nested
          ELSE LET next == Scanner_advance(open.sc) IN
               Scanner_scan_block_comment(
                   IF next.char = "\n" THEN [next.sc EXCEPT !.line = @ + 1, !.column = 0]
                   ELSE next.sc)

\* Scanner::add_string : the loop up to the closing quote
RECURSIVE string_body(_)
string_body(sc) ==
    IF Scanner_peek(sc) # "\"" /\ ~Scanner_is_at_end(sc)
    THEN string_body(Scanner_advance(
             IF Scanner_peek(sc) = "\n" THEN [sc EXCEPT !.line = @ + 1, !.column = 0]
             ELSE sc).sc)
    ELSE sc

\* Scanner::add_string
Scanner_add_string(sc) ==
    LET body == string_body(sc) IN
    IF Scanner_is_at_end(body) THEN [sc |-> body, ok |-> FALSE, msg |-> "Unterminated string."]
    ELSE LET closed == Scanner_advance(body).sc
             value == Collect(Slice(closed, closed.start + 1, closed.current - 1))
         IN [sc |-> [Scanner_add_token_literal(closed, "String", String(value))
                        EXCEPT !.panic = @ \/ SlicePanics(closed, closed.start + 1,
                                                          closed.current - 1)],
             ok |-> TRUE, msg |-> ""]

\* the loop `while self.peek().is_ascii_digit() { self.advance(); }`
RECURSIVE digits(_)
digits(sc) == IF Scanner_peek(sc) \in Digits THEN digits(Scanner_advance(sc).sc) ELSE sc

DigitValue ==
    "0" :> 0 @@ "1" :> 1 @@ "2" :> 2 @@ "3" :> 3 @@ "4" :> 4 @@ "5" :> 5 @@ "6" :> 6
    @@ "7" :> 7 @@ "8" :> 8 @@ "9" :> 9

\* the value of a sequence of digits
RECURSIVE Whole(_)
Whole(chars) ==
    IF chars = <<>> THEN 0
    ELSE 10 * Whole(SubSeq(chars, 1, Len(chars) - 1)) + DigitValue[chars[Len(chars)]]

\* fraction digits without the trailing zeros
RECURSIVE Significant(_)
Significant(chars) ==
    IF chars # <<>> /\ chars[Len(chars)] = "0" THEN Significant(SubSeq(chars, 1, Len(chars) - 1))
    ELSE chars

\* str::parse::<f64> of a lexeme digits[.digits] : the integer, or the integer
\* part with the significant fraction digits
ParseNumber(chars) ==
    LET dots == {i \in 1..Len(chars) : chars[i] = "."}
        dot == IF dots = {} THEN Len(chars) + 1 ELSE CHOOSE i \in dots : TRUE
        whole == Whole(SubSeq(chars, 1, dot - 1))
        fraction == Significant(SubSeq(chars, dot + 1, Len(chars)))
    IN IF fraction = <<>> THEN whole ELSE [whole |-> whole, fraction |-> fraction]

\* Scanner::add_number
Scanner_add_number(sc) ==
    LET whole == digits(sc)
        all == IF Scanner_peek(whole) = "." /\ Scanner_peek_next(whole) \in Digits
               THEN digits(Scanner_advance(whole).sc)
               ELSE whole
    IN Scanner_add_token_literal(all, "Number",
                                 Number(ParseNumber(Slice(all, all.start, all.current))))

\* Scanner::is_alphanumeric
Scanner_is_alphanumeric(sc) ==
    Scanner_peek(sc) \in Letters \/ Scanner_peek(sc) \in Digits \/ Scanner_peek(sc) = "_"

\* Scanner::get_keyword ; "None" for None
get_keyword(word) ==
    CASE word = "and" -> "And"
      [] word = "class" -> "Class"
      [] word = "else" -> "Else"
      [] word = "false" -> "False"
      [] word = "for" -> "For"
      [] word = "fun" -> "Fun"
      [] word = "if" -> "If"
      [] word = "nil" -> "Nil"
      [] word = "or" -> "Or"
      [] word = "print" -> "Print"
      [] word = "return" -> "Return"
      [] word = "super" -> "Super"
      [] word = "this" -> "This"
      [] word = "true" -> "True"
      [] word = "var" -> "Var"
      [] word = "while" -> "While"
      [] OTHER -> "None"

\* the loop `while self.is_alphanumeric() { self.advance(); }`
RECURSIVE alphanumerics(_)
alphanumerics(sc) ==
    IF Scanner_is_alphanumeric(sc) THEN alphanumerics(Scanner_advance(sc).sc) ELSE sc

\* Scanner::add_identifier
Scanner_add_identifier(sc) ==
    LET word == alphanumerics(sc)
        value == Collect(Slice(word, word.start, word.current))
        token_type == get_keyword(value)
    IN CASE token_type = "True" -> Scanner_add_token_literal(word, token_type, Bool(TRUE))
         [] token_type = "False" -> Scanner_add_token_literal(word, token_type, Bool(FALSE))
         [] token_type = "None" -> Scanner_add_token_literal(word, "Identifier", String(value))
         [] OTHER -> Scanner_add_token(word, token_type)

\* the one-character arms of Scanner::scan_token
SingleCharacter ==
    "(" :> "LeftParen" @@ ")" :> "RightParen" @@ "{" :> "LeftBrace" @@ "}" :> "RightBrace"
    @@ "," :> "Comma" @@ "." :> "Dot" @@ "-" :> "Minus" @@ "+" :> "Plus" @@ ":" :> "Colon"
    @@ ";" :> "Semicolon" @@ "*" :> "Star" @@ "?" :> "Question"

\* the arms of Scanner::scan_token that look for '=' after the character
WithEqual ==
    "!" :> <<"BangEqual", "Bang">> @@ "=" :> <<"EqualEqual", "Equal">>
    @@ "<" :> <<"LessEqual", "Less">> @@ ">" :> <<"GreaterEqual", "Greater">>

\* the loop of a line comment
RECURSIVE line_comment(_)
line_comment(sc) ==
    IF Scanner_peek(sc) # "\n" /\ ~Scanner_is_at_end(sc)
    THEN line_comment(Scanner_advance(sc).sc)
    ELSE sc

Scanned(sc) == [sc |-> sc, ok |-> TRUE, msg |-> ""]

\* Scanner::scan_token
Scanner_scan_token(sc0) ==
    LET first == Scanner_advance(sc0)
        sc == first.sc
        char == first.char
    IN CASE char \in DOMAIN SingleCharacter -> Scanned(Scanner_add_token(sc, SingleCharacter[char]))
         [] char \in DOMAIN WithEqual ->
               LET equal == Scanner_match_next_with(sc, "=") IN
               Scanned(Scanner_add_token(equal.sc, IF equal.matched THEN WithEqual[char][1]
                                                   ELSE WithEqual[char][2]))
         [] char = "/" ->
               LET slash == Scanner_match_next_with(sc, "/")
                   star == Scanner_match_next_with(sc, "*")
               IN IF slash.matched THEN Scanned(line_comment(slash.sc))
                  ELSE IF star.matched THEN Scanner_scan_block_comment(star.sc)
                  ELSE Scanned(Scanner_add_token(sc, "Slash"))
         [] char \in {" ", "\r", "\t"} -> Scanned(sc)
         [] char = "\n" -> Scanned([sc EXCEPT !.line = @ + 1, !.column = 0])
         [] char = "\"" -> Scanner_add_string(sc)
         [] char \in Digits -> Scanned(Scanner_add_number(sc))
         [] char \in Letters \/ char = "_" -> Scanned(Scanner_add_identifier(sc))
         [] OTHER -> [sc |-> sc, ok |-> FALSE, msg |-> "Unexpected character."]

\* Scanner::scan_tokens, one turn of the loop: an Err is reported and the scan
\* goes on
scan_tokens_step(sc) ==
    LET result == Scanner_scan_token([sc EXCEPT !.start = sc.current]) IN
    IF result.ok THEN result.sc
    ELSE [result.sc EXCEPT !.errors = Append(@, result.msg)]

\* Scanner::scan_tokens, after the loop: the Eof token
scan_tokens_end(sc) == [sc EXCEPT !.tokens = Append(@, Token("Eof", "", Nil, sc.line))]

\* Scanner::scan_tokens (the test of sc.panic comes first, so each turn of the
\* loop is evaluated before the next one starts)
RECURSIVE Scanner_scan_tokens(_)
Scanner_scan_tokens(sc) ==
    IF sc.panic THEN sc
    ELSE IF Scanner_is_at_end(sc) THEN scan_tokens_end(sc)
    ELSE LET next == scan_tokens_step(sc) IN
         IF next.panic THEN next ELSE Scanner_scan_tokens(next)

-----------------------------------------------------------------------------
(* Scanning, over sources of every shape *)

\* every sequence of at most n elements of S
SeqsUpTo(S, n) == UNION {[1..k -> S] : k \in 0..n}

\* characters of every arm of scan_token: comment, string, identifier, number,
\* dot, newline, and one that is no token
ScanAlphabet == {"/", "*", "\"", "a", "1", ".", "\n", "@"}

\* block comments: the opening and then slashes, stars and other characters
CommentSources == {<<"/", "*">> \o rest : rest \in SeqsUpTo({"/", "*", "a"}, MaxComment)}

\* identifier-shaped lexemes: the reserved words and other words
Words ==
    {<<"a", "n", "d">>,
     <<"c", "l", "a", "s", "s">>,
     <<"e", "l", "s", "e">>,
     <<"f", "a", "l", "s", "e">>,
     <<"f", "o", "r">>,
     <<"f", "u", "n">>,
     <<"i", "f">>,
     <<"n", "i", "l">>,
     <<"o", "r">>,
     <<"p", "r", "i", "n", "t">>,
     <<"r", "e", "t", "u", "r", "n">>,
     <<"s", "u", "p", "e", "r">>,
     <<"t", "h", "i", "s">>,
     <<"t", "r", "u", "e">>,
     <<"v", "a", "r">>,
     <<"w", "h", "i", "l", "e">>,
     <<"b", "r", "e", "a", "k">>,
     <<"b", "r", "e", "a", "k", "s">>,
     <<"a", "n">>,
     <<"_", "i", "f">>,
     <<"F", "o", "r">>,
     <<"n", "i", "l", "1">>,
     <<"x">>,
     <<"c", "l", "a", "s", "s", "y">>,
     <<"b", "r", "e", "a">>,
     <<"i", "_", "f">>}

Sources == SeqsUpTo(ScanAlphabet, MaxSource) \cup CommentSources \cup Words

\* run has made a Scanner for the source
InitScan ==
    /\ program \in Sources
    /\ locals = EmptyMap
    /\ environment = Globals
    /\ envs = << [values |-> ("clock" :> NativeFunction("clock", 0)), enclosing |-> NoEnv] >>
    /\ instances = <<>>
    /\ ctl = [c |-> "scan", scanner |-> Scanner_new(program)]
    /\ kont = <<>>
    /\ out = <<>>
    /\ reported = <<>>
    /\ reads = {}
    /\ lastCall = [c |-> "none"]
    /\ lastGet = [c |-> "none"]

\* a turn of scan_tokens can be taken exactly while the scan is in its loop
Scanner_in_loop == ctl.c = "scan" /\ ~ctl.scanner.panic

\* Scanner::scan_tokens : one turn of the loop
Scanner_scan_tokens_loop ==
    /\ Scanner_in_loop
    /\ ~Scanner_is_at_end(ctl.scanner)
    /\ ctl' = [c |-> "scan", scanner |-> scan_tokens_step(ctl.scanner)]
    /\ UNCHANGED <<program, locals, environment, heap, kont, out, reported, history>>

\* Scanner::scan_tokens : the end of the loop and the return
Scanner_scan_tokens_return ==
    /\ Scanner_in_loop
    /\ Scanner_is_at_end(ctl.scanner)
    /\ ctl' = [c |-> "scanned", scanner |-> scan_tokens_end(ctl.scanner)]
    /\ UNCHANGED <<program, locals, environment, heap, kont, out, reported, history>>

NextScan == Scanner_scan_tokens_loop \/ Scanner_scan_tokens_return

\* the loop of scan_tokens runs on its own, nothing else is scheduled: weak
\* fairness of NextScan, WF_vars(NextScan), with ENABLED <<NextScan>>_vars
\* written as the guard the two actions share
SpecScan ==
    /\ InitScan /\ [][NextScan]_vars
    /\ ([]<>(~Scanner_in_loop) \/ []<><<NextScan>>_vars)

\* C14: lexing is total. On every source the scan never indexes outside the
\* source, every turn of scan_token consumes at least one character, the scan
\* ends, and the tokens it returns end with an Eof token that is the only one.
C14_LexingTotal ==
    /\ [](ctl.c \in {"scan", "scanned"} => ~ctl.scanner.panic)
    /\ [][(ctl.c = "scan" /\ ctl'.c = "scan") => ctl'.scanner.current > ctl.scanner.current]_vars
    /\ [](ctl.c = "scanned" =>
            LET tokens == ctl.scanner.tokens IN
            /\ tokens # <<>>
            /\ {i \in 1..Len(tokens) : tokens[i].token_type = "Eof"} = {Len(tokens)})
    /\ <>(ctl.c = "scanned")

\* C14 happens: the source ended inside a block comment right after a `*`, the
\* scan read the last character once more, went past the end, and returned.
C14_Witness ==
    /\ ctl.c = "scanned"
    /\ ctl.scanner.current > Len(ctl.scanner.source)
    /\ ctl.scanner.errors = <<"Unterminated block comment.">>
    /\ ctl.scanner.tokens = <<Token("Eof", "", Nil, 1)>>

\* Where a block comment ends by the rule of nesting: the number of characters
\* of the source up to and with the `*/` that matches the outermost `/*`, when
\* i characters are read and depth comments are open; 0 when none matches.
RECURSIVE CommentClose(_, _, _)
CommentClose(source, i, depth) ==
    IF i + 2 > Len(source) THEN 0
    ELSE IF source[i + 1] = "*" /\ source[i + 2] = "/"
         THEN IF depth = 1 THEN i + 2 ELSE CommentClose(source, i + 2, depth - 1)
    ELSE IF source[i + 1] = "/" /\ source[i + 2] = "*"
         THEN CommentClose(source, i + 2, depth + 1)
    ELSE CommentClose(source, i + 1, depth)

\* C15: block comments nest. A source that opens a block comment in which every
\* `/*` has its `*/` scans to what the source after that comment scans to, with
\* no token and no error from the comment; one whose `/*` has no `*/` reports
\* "Unterminated block comment."
C15_BlockCommentsNest ==
    (ctl.c = "scanned" /\ program \in CommentSources) =>
        LET close == CommentClose(program, 2, 1)
            after == Scanner_scan_tokens(Scanner_new(SubSeq(program, close + 1, Len(program))))
        IN  IF close = 0
            THEN \E i \in 1..Len(ctl.scanner.errors) :
                    ctl.scanner.errors[i] = "Unterminated block comment."
            ELSE /\ ctl.scanner.tokens = after.tokens
                 /\ ctl.scanner.errors = after.errors

\* the reserved words, each with the token kind of its own
ReservedWords ==
    {<<"and", "And">>, <<"class", "Class">>, <<"else", "Else">>, <<"false", "False">>,
     <<"for", "For">>, <<"fun", "Fun">>, <<"if", "If">>, <<"nil", "Nil">>,
     <<"or", "Or">>, <<"print", "Print">>, <<"return", "Return">>, <<"super", "Super">>,
     <<"this", "This">>, <<"true", "True">>, <<"var", "Var">>, <<"while", "While">>,
     <<"break", "Break">>}

\* C16: a source that is one identifier-shaped lexeme scans to one token and
\* Eof; the token has the kind of the reserved word when the lexeme is one of
\* the seventeen reserved words, break among them, and is an Identifier
\* otherwise.
C16_ReservedWords ==
    (ctl.c = "scanned" /\ program \in Words) =>
        LET word == Collect(program)
            tokens == ctl.scanner.tokens
        IN  /\ Len(tokens) = 2
            /\ tokens[1].lexeme = word
            /\ IF \E r \in ReservedWords : r[1] = word
               THEN \E r \in ReservedWords : r[1] = word /\ tokens[1].token_type = r[2]
               ELSE tokens[1].token_type = "Identifier"

-----------------------------------------------------------------------------
(* Parser (parser.rs).  A parser state p is the record of the struct fields, *)
(* with the static UUID counter of next_uid and the messages reported; a     *)
(* Result is Parsed(value, p) or Failed(p, message), p being the state the   *)
(* call left.  A Token stands in a node by its lexeme.                       *)

Grouping(uid, expression) == [t |-> "Grouping", uid |-> uid, expression |-> expression]
Logical(uid, left, operator, right) ==
    [t |-> "Logical", uid |-> uid, left |-> left, operator |-> operator, right |-> right]
Unary(uid, operator, right) ==
    [t |-> "Unary", uid |-> uid, operator |-> operator, right |-> right]
Ternary(uid, condition, then_branch, else_branch) ==
    [t |-> "Ternary", uid |-> uid, condition |-> condition, then_branch |-> then_branch,
     else_branch |-> else_branch]

\* Parser::new
Parser_new(tokens) ==
    [tokens |-> tokens, current |-> 0, had_error |-> FALSE, uid |-> 0, errors |-> <<>>]

\* next_uid : the state with UUID incremented; the uid returned is its .uid
next_uid(p) == [p EXCEPT !.uid = @ + 1]

Parsed(v, p) == [ok |-> TRUE, v |-> v, p |-> p]
\* LoxErrorResult::parse_error
Failed(p, msg) == [ok |-> FALSE, p |-> p, msg |-> msg]

\* Parser::peek
Parser_peek(p) == p.tokens[p.current + 1]

\* Parser::previous
Parser_previous(p) == p.tokens[p.current]

\* Parser::is_at_end
Parser_is_at_end(p) == Parser_peek(p).token_type = "Eof"

\* Parser::check
Parser_check(p, token_type) ==
    IF Parser_is_at_end(p) THEN FALSE ELSE Parser_peek(p).token_type = token_type

\* Parser::advance : the state it leaves; the token returned is its previous()
Parser_advance(p) == IF ~Parser_is_at_end(p) THEN [p EXCEPT !.current = @ + 1] ELSE p

\* Parser::consume
Parser_consume(p, token_type, message) ==
    IF Parser_check(p, token_type)
    THEN Parsed(Parser_previous(Parser_advance(p)), Parser_advance(p))
    ELSE Failed(p, message)

\* the largest number of parameters or arguments collected without an error
ListLimit == 255

\* the test at the head of the parameter loop and of the argument loop: at
\* the limit a parse error is constructed at the next token and dropped, the
\* loop goes on and had_error is left as it is
over_limit(p, len, message) ==
    IF len >= ListLimit THEN [p EXCEPT !.errors = Append(@, message)] ELSE p

\* the loop of Parser::synchronize
RECURSIVE synchronize_loop(_)
synchronize_loop(p) ==
    IF Parser_is_at_end(p) THEN p
    ELSE IF Parser_previous(p).token_type = "Semicolon" THEN p
    ELSE IF Parser_peek(p).token_type \in
                {"Class", "Fun", "Var", "For", "If", "While", "Print", "Return"} THEN p
    ELSE synchronize_loop(Parser_advance(p))

\* Parser::synchronize
Parser_synchronize(p) == synchronize_loop(Parser_advance(p))

RECURSIVE Parser_declaration(_)
RECURSIVE Parser_class_declaration(_)
RECURSIVE class_methods_loop(_, _)
RECURSIVE Parser_function_declaration(_, _)
RECURSIVE Parser_var_declaration(_)
RECURSIVE Parser_statement(_)
RECURSIVE Parser_for_statement(_)
RECURSIVE Parser_if_statement(_)
RECURSIVE Parser_print_statement(_)
RECURSIVE Parser_return_statement(_)
RECURSIVE Parser_while_statement(_)
RECURSIVE Parser_block(_)
RECURSIVE block_loop(_, _)
RECURSIVE Parser_expression_statement(_)
RECURSIVE Parser_expression(_)
RECURSIVE Parser_assignment(_)
RECURSIVE Parser_ternary(_)
RECURSIVE ternary_loop(_, _)
RECURSIVE binary_level(_, _)
RECURSIVE grouping(_)
RECURSIVE get_expr(_, _)
RECURSIVE call_expr(_, _)
RECURSIVE unary_expr(_)
RECURSIVE assignment_value(_, _)
RECURSIVE binary_loop(_, _, _)
RECURSIVE Parser_unary(_)
RECURSIVE Parser_finish_call(_, _)
RECURSIVE arguments_turns(_, _)
RECURSIVE Parser_call(_)
RECURSIVE call_loop(_, _)
RECURSIVE Parser_primary(_)
RECURSIVE block_statement(_)
RECURSIVE declaration_result(_)

\* the token type a chain of `if self.matches(&[..])` tests (check is false for
\* every type at the end, where the token is Eof)
Parser_peek_type(p) == Parser_peek(p).token_type

\* Parser::primary, the grouping
grouping(p) ==
    LET closed(expression, paren) ==
            IF paren.ok
            THEN Parsed(Grouping(paren.p.uid + 1, expression.v), next_uid(paren.p))
            ELSE paren
        inner(expression) ==
            IF expression.ok
            THEN closed(expression, Parser_consume(expression.p, "RightParen",
                                                   "Expect ')' after expression."))
            ELSE expression
    IN inner(Parser_expression(p))

\* Parser::primary
Parser_primary(p) ==
    LET token_type == Parser_peek_type(p)
        p1 == next_uid(Parser_advance(p))
    IN CASE token_type = "False" -> Parsed(Literal(p1.uid, Bool(FALSE)), p1)
         [] token_type = "True" -> Parsed(Literal(p1.uid, Bool(TRUE)), p1)
         [] token_type = "Nil" -> Parsed(Literal(p1.uid, Nil), p1)
         [] token_type \in {"Number", "String"} ->
                Parsed(Literal(p1.uid, Parser_previous(p1).literal), p1)
         [] token_type = "Identifier" ->
                Parsed(Variable(p1.uid, Parser_previous(p1).lexeme), p1)
         [] token_type = "LeftParen" -> grouping(Parser_advance(p))
         [] OTHER -> Failed(p, "Expect expression.")

\* Parser::call, `expr = Expr::Get(..)`
get_expr(p, expr) ==
    LET named(name) ==
            IF name.ok
            THEN call_loop(next_uid(name.p), Get(name.p.uid + 1, expr, name.v.lexeme))
            ELSE name
    IN named(Parser_consume(p, "Identifier", "Expect property name after '.'."))

\* Parser::call, `expr = self.finish_call(Box::new(expr))?`
call_expr(p, expr) ==
    LET finished(called) == IF called.ok THEN call_loop(called.p, called.v) ELSE called
    IN finished(Parser_finish_call(p, expr))

\* the loop of Parser::call
call_loop(p, expr) ==
    LET token_type == Parser_peek_type(p) IN
    CASE token_type = "LeftParen" -> call_expr(Parser_advance(p), expr)
      [] token_type = "Dot" -> get_expr(Parser_advance(p), expr)
      [] OTHER -> Parsed(expr, p)

\* Parser::call
Parser_call(p) ==
    LET callee(expr) == IF expr.ok THEN call_loop(expr.p, expr.v) ELSE expr
    IN callee(Parser_primary(p))

\* one turn of the argument loop of Parser::finish_call : the test of the
\* limit, the argument pushed, and whether a comma follows
arguments_turn(s) ==
    LET pushed(argument) ==
            IF argument.ok
            THEN IF Parser_check(argument.p, "Comma")
                 THEN [ok |-> TRUE, done |-> FALSE, p |-> Parser_advance(argument.p),
                       v |-> Append(s.v, argument.v)]
                 ELSE [ok |-> TRUE, done |-> TRUE, p |-> argument.p,
                       v |-> Append(s.v, argument.v)]
            ELSE [ok |-> FALSE, done |-> TRUE, p |-> argument.p, msg |-> argument.msg]
    IN pushed(Parser_expression(over_limit(s.p, Len(s.v),
                                           "Cannot have more than 255 arguments.")))

\* at most n turns of the argument loop, stopping at the break or at the error
arguments_turns(s, n) ==
    LET rest(first) == arguments_turns(first, n - (n \div 2))
    IN IF s.done THEN s
       ELSE IF n <= 1 THEN arguments_turn(s)
       ELSE rest(arguments_turns(s, n \div 2))

RECURSIVE arguments_run(_, _)
\* the turns of the argument loop up to its break or its error, taken n at a
\* time, then 2 * n at a time, and so on
arguments_run(s, n) ==
    IF s.done THEN s ELSE arguments_run(arguments_turns(s, n), 2 * n)

\* the argument loop of Parser::finish_call
arguments_loop(p, arguments) ==
    LET left(s) == IF s.ok THEN Parsed(s.v, s.p) ELSE Failed(s.p, s.msg)
    IN left(arguments_run(arguments_turn([ok |-> TRUE, done |-> FALSE, p |-> p,
                                           v |-> arguments]), 1))

\* Parser::finish_call
Parser_finish_call(p, callee) ==
    LET closed(arguments, paren) ==
            IF paren.ok
            THEN Parsed(Call(paren.p.uid + 1, callee, arguments.v), next_uid(paren.p))
            ELSE paren
        collected(arguments) ==
            IF arguments.ok
            THEN closed(arguments, Parser_consume(arguments.p, "RightParen",
                                                  "Expect ')' after arguments."))
            ELSE arguments
    IN collected(IF Parser_check(p, "RightParen") THEN Parsed(<<>>, p)
                 ELSE arguments_loop(p, <<>>))

\* Parser::unary, the operator and its operand
unary_expr(p) ==
    LET operand(right) ==
            IF right.ok
            THEN Parsed(Unary(right.p.uid + 1, Parser_previous(p).lexeme, right.v),
                        next_uid(right.p))
            ELSE right
    IN operand(Parser_unary(p))

\* Parser::unary
Parser_unary(p) ==
    IF Parser_peek_type(p) \in {"Bang", "Minus"} THEN unary_expr(Parser_advance(p))
    ELSE Parser_call(p)

\* The six functions of the left-associative binary operators, by level:
\* logic_or, logic_and, equality, comparison, term, factor.
LogicOr == 1
LogicAnd == 2
Factor == 6

\* the token types each of them matches
OperatorTypes(level) ==
    CASE level = 1 -> {"Or"}
      [] level = 2 -> {"And"}
      [] level = 3 -> {"BangEqual", "EqualEqual"}
      [] level = 4 -> {"Greater", "GreaterEqual", "Less", "LessEqual"}
      [] level = 5 -> {"Minus", "Plus"}
      [] level = 6 -> {"Slash", "Star"}

\* the loop `while self.matches(..)` of each of them
binary_loop(p, expr, level) ==
    LET operator == Parser_peek(p).lexeme
        node(uid, right) ==
            IF level \in {LogicOr, LogicAnd} THEN Logical(uid, expr, operator, right)
            ELSE Binary(uid, expr, operator, right)
        operand(right) ==
            IF right.ok
            THEN binary_loop(next_uid(right.p), node(right.p.uid + 1, right.v), level)
            ELSE right
    IN IF Parser_peek_type(p) \in OperatorTypes(level)
       THEN operand(binary_level(Parser_advance(p), level + 1))
       ELSE Parsed(expr, p)

\* Parser::logic_or, logic_and, equality, comparison, term, factor: the
\* operand, by the function of the next level (unary under factor), and the
\* loop
binary_level(p, level) ==
    LET first(expr) == IF expr.ok THEN binary_loop(expr.p, expr.v, level) ELSE expr
    IN IF level > Factor THEN Parser_unary(p) ELSE first(binary_level(p, level + 1))

\* the loop of Parser::ternary
ternary_loop(p, expr) ==
    LET branches(then_branch, else_branch) ==
            IF else_branch.ok
            THEN ternary_loop(next_uid(else_branch.p),
                              Ternary(else_branch.p.uid + 1, expr, then_branch.v,
                                      else_branch.v))
            ELSE else_branch
        separated(then_branch, colon) ==
            IF colon.ok THEN branches(then_branch, Parser_ternary(colon.p)) ELSE colon
        first(then_branch) ==
            IF then_branch.ok
            THEN separated(then_branch,
                           Parser_consume(then_branch.p, "Colon",
                               "Expect ':' after then branch of ternary operator."))
            ELSE then_branch
    IN IF ~Parser_check(p, "Question") THEN Parsed(expr, p)
       ELSE first(Parser_expression(Parser_advance(p)))

\* Parser::ternary (its first operand is logic_or)
Parser_ternary(p) ==
    LET condition(expr) == IF expr.ok THEN ternary_loop(expr.p, expr.v) ELSE expr
    IN condition(binary_level(p, LogicOr))

\* Parser::assignment, after the value: `if let Expr::Variable(variable) = expr`
assignment_target(expr, value, p) ==
    IF expr.t = "Variable"
    THEN LET p1 == next_uid(p) IN Parsed(Assign(p1.uid, expr.name, value), p1)
    ELSE Failed(p, "Invalid assignment target.")

\* Parser::assignment, from the `=` on
assignment_value(p, expr) ==
    LET assigned(value) ==
            IF value.ok THEN assignment_target(expr, value.v, value.p) ELSE value
    IN assigned(Parser_assignment(p))

\* Parser::assignment
Parser_assignment(p) ==
    LET target(expr) ==
            IF expr.ok
            THEN IF Parser_check(expr.p, "Equal")
                 THEN assignment_value(Parser_advance(expr.p), expr.v)
                 ELSE expr
            ELSE expr
    IN target(Parser_ternary(p))

\* Parser::expression
Parser_expression(p) == Parser_assignment(p)

\* Parser::expression_statement
Parser_expression_statement(p) ==
    LET ended(expr, semicolon) ==
            IF ~semicolon.ok THEN semicolon ELSE Parsed(Expression(expr.v), semicolon.p)
        value(expr) ==
            IF ~expr.ok THEN expr
            ELSE ended(expr, Parser_consume(expr.p, "Semicolon", "Expect ';' after value."))
    IN value(Parser_expression(p))

\* the loop of Parser::block
block_loop(p, statements) ==
    LET pushed(statement) ==
            block_loop(statement.p,
                       IF statement.some THEN Append(statements, statement.v)
                       ELSE statements)
    IN IF ~Parser_check(p, "RightBrace") /\ ~Parser_is_at_end(p)
       THEN pushed(Parser_declaration(p))
       ELSE Parsed(statements, p)

\* Parser::block
Parser_block(p) ==
    LET closed(statements, brace) ==
            IF brace.ok THEN Parsed(statements.v, brace.p) ELSE brace
        body(statements) ==
            IF statements.ok
            THEN closed(statements, Parser_consume(statements.p, "RightBrace",
                                                   "Expect '}' after block."))
            ELSE statements
    IN body(block_loop(p, <<>>))

\* Parser::while_statement (each `?` returns the Err it meets)
Parser_while_statement(p) ==
    LET loop(condition, body) ==
            IF body.ok THEN Parsed(While(condition.v, body.v), body.p) ELSE body
        closed(condition, right) ==
            IF right.ok THEN loop(condition, Parser_statement(right.p)) ELSE right
        test(condition) ==
            IF condition.ok
            THEN closed(condition, Parser_consume(condition.p, "RightParen",
                                                  "Expect ')' after condition."))
            ELSE condition
        opened(left) == IF left.ok THEN test(Parser_expression(left.p)) ELSE left
    IN opened(Parser_consume(p, "LeftParen", "Expect '(' after 'while'."))

\* Parser::return_statement
Parser_return_statement(p) ==
    LET ended(value, semicolon) ==
            IF semicolon.ok THEN Parsed(Return(value.v), semicolon.p) ELSE semicolon
        returned(value) ==
            IF value.ok
            THEN ended(value, Parser_consume(value.p, "Semicolon",
                                             "Expect ';' after return value."))
            ELSE value
    IN returned(IF ~Parser_check(p, "Semicolon") THEN Parser_expression(p)
                ELSE Parsed(NoExpr, p))

\* Parser::print_statement
Parser_print_statement(p) ==
    LET ended(value, semicolon) ==
            IF semicolon.ok THEN Parsed(PrintS(value.v), semicolon.p) ELSE semicolon
        printed(value) ==
            IF value.ok
            THEN ended(value, Parser_consume(value.p, "Semicolon",
                                             "Expect ';' after 'print' value."))
            ELSE value
    IN printed(Parser_expression(p))

\* Parser::if_statement
Parser_if_statement(p) ==
    LET branches(condition, then_branch, else_branch) ==
            IF else_branch.ok
            THEN Parsed(If(condition.v, then_branch.v, else_branch.v), else_branch.p)
            ELSE else_branch
        first(condition, then_branch) ==
            IF ~then_branch.ok THEN then_branch
            ELSE branches(condition, then_branch,
                          IF Parser_check(then_branch.p, "Else")
                          THEN Parser_statement(Parser_advance(then_branch.p))
                          ELSE Parsed(NoStmt, then_branch.p))
        closed(condition, right) ==
            IF right.ok THEN first(condition, Parser_statement(right.p)) ELSE right
        test(condition) ==
            IF condition.ok
            THEN closed(condition, Parser_consume(condition.p, "RightParen",
                                                  "Expect ')' after if condition."))
            ELSE condition
        opened(left) == IF left.ok THEN test(Parser_expression(left.p)) ELSE left
    IN opened(Parser_consume(p, "LeftParen", "Expect '(' after 'if'."))

\* A variant of the increment step of for_statement that puts the increment
\* before the body.
for_body_increment_first(body, increment) ==
    IF increment.t # "None" THEN Block(<<Expression(increment), body>>) ELSE body

\* Parser::for_statement, `if let Some(value) = increment`
for_body(body, increment) ==
    IF increment.t # "None" THEN Block(<<body, Expression(increment)>>) ELSE body

\* Parser::for_statement, from the body on: the desugaring
for_desugar(initializer, condition, increment, body, p) ==
    LET p1 == IF condition.t # "None" THEN p ELSE next_uid(p)
        while_condition == IF condition.t # "None" THEN condition
                           ELSE Literal(p1.uid, Bool(TRUE))
        loop == While(while_condition, for_body(body, increment))
    IN Parsed(IF initializer.t # "None" THEN Block(<<initializer, loop>>) ELSE loop, p1)

\* Parser::for_statement
Parser_for_statement(p) ==
    LET loop(initializer, condition, increment, body) ==
            IF body.ok
            THEN for_desugar(initializer.v, condition.v, increment.v, body.v, body.p)
            ELSE body
        closed(initializer, condition, increment, right) ==
            IF right.ok
            THEN loop(initializer, condition, increment, Parser_statement(right.p))
            ELSE right
        step(initializer, condition, increment) ==
            IF increment.ok
            THEN closed(initializer, condition, increment,
                        Parser_consume(increment.p, "RightParen",
                                       "Expect ')' after for clauses."))
            ELSE increment
        separated(initializer, condition, semicolon) ==
            IF ~semicolon.ok THEN semicolon
            ELSE step(initializer, condition,
                      IF ~Parser_check(semicolon.p, "RightParen")
                      THEN Parser_expression(semicolon.p)
                      ELSE Parsed(NoExpr, semicolon.p))
        test(initializer, condition) ==
            IF condition.ok
            THEN separated(initializer, condition,
                           Parser_consume(condition.p, "Semicolon",
                                          "Expect ';' after loop condition."))
            ELSE condition
        first(initializer) ==
            IF ~initializer.ok THEN initializer
            ELSE test(initializer,
                      IF ~Parser_check(initializer.p, "Semicolon")
                      THEN Parser_expression(initializer.p)
                      ELSE Parsed(NoExpr, initializer.p))
        opened(left) ==
            IF ~left.ok THEN left
            ELSE first(IF Parser_check(left.p, "Semicolon")
                       THEN Parsed(NoStmt, Parser_advance(left.p))
                       ELSE IF Parser_check(left.p, "Var")
                            THEN Parser_var_declaration(Parser_advance(left.p))
                       ELSE Parser_expression_statement(left.p))
    IN opened(Parser_consume(p, "LeftParen", "Expect '(' after 'for'."))

\* Parser::break_statement
Parser_break_statement(p) ==
    LET ended(semicolon) ==
            IF ~semicolon.ok THEN semicolon ELSE Parsed(Break, semicolon.p)
    IN ended(Parser_consume(p, "Semicolon", "Expect ';' after 'break'."))

\* the block statement of Parser::statement
block_statement(p) ==
    LET body(statements) ==
            IF statements.ok THEN Parsed(Block(statements.v), statements.p) ELSE statements
    IN body(Parser_block(p))

\* Parser::statement
Parser_statement(p) ==
    LET token_type == Parser_peek_type(p) IN
    CASE token_type = "Break" -> Parser_break_statement(Parser_advance(p))
      [] token_type = "For" -> Parser_for_statement(Parser_advance(p))
      [] token_type = "If" -> Parser_if_statement(Parser_advance(p))
      [] token_type = "Print" -> Parser_print_statement(Parser_advance(p))
      [] token_type = "Return" -> Parser_return_statement(Parser_advance(p))
      [] token_type = "While" -> Parser_while_statement(Parser_advance(p))
      [] token_type = "LeftBrace" -> block_statement(Parser_advance(p))
      [] OTHER -> Parser_expression_statement(p)

\* Parser::var_declaration
Parser_var_declaration(p) ==
    LET ended(name, initializer, semicolon) ==
            IF semicolon.ok THEN Parsed(Var(name.v.lexeme, initializer.v), semicolon.p)
            ELSE semicolon
        value(name, initializer) ==
            IF initializer.ok
            THEN ended(name, initializer,
                       Parser_consume(initializer.p, "Semicolon",
                                      "Expect ';' after variable declaration."))
            ELSE initializer
        named(name) ==
            IF ~name.ok THEN name
            ELSE value(name, IF Parser_check(name.p, "Equal")
                             THEN Parser_expression(Parser_advance(name.p))
                             ELSE Parsed(NoExpr, name.p))
    IN named(Parser_consume(p, "Identifier", "Expect variable name."))

\* one turn of the parameter loop of Parser::function_declaration : the test
\* of the limit, the name pushed, and whether a comma follows
params_turn(s) ==
    LET pushed(param) ==
            IF ~param.ok
            THEN [ok |-> FALSE, done |-> TRUE, p |-> param.p, msg |-> param.msg]
            ELSE IF Parser_check(param.p, "Comma")
                 THEN [ok |-> TRUE, done |-> FALSE, p |-> Parser_advance(param.p),
                       v |-> Append(s.v, param.v.lexeme)]
                 ELSE [ok |-> TRUE, done |-> TRUE, p |-> param.p,
                       v |-> Append(s.v, param.v.lexeme)]
    IN pushed(Parser_consume(over_limit(s.p, Len(s.v),
                                        "Cannot have more than 255 parameters."),
                             "Identifier", "Expect parameter name."))

\* at most n turns of the parameter loop, stopping at the break or at the error
RECURSIVE params_turns(_, _)
params_turns(s, n) ==
    LET rest(first) == params_turns(first, n - (n \div 2))
    IN IF s.done THEN s
       ELSE IF n <= 1 THEN params_turn(s)
       ELSE rest(params_turns(s, n \div 2))

RECURSIVE params_run(_, _)
\* the turns of the parameter loop up to its break or its error, taken n at a
\* time, then 2 * n at a time, and so on
params_run(s, n) ==
    IF s.done THEN s ELSE params_run(params_turns(s, n), 2 * n)

\* the parameter loop of Parser::function_declaration
params_loop(p, params) ==
    LET left(s) == IF s.ok THEN Parsed(s.v, s.p) ELSE Failed(s.p, s.msg)
    IN left(params_run(params_turn([ok |-> TRUE, done |-> FALSE, p |-> p,
                                           v |-> params]), 1))

\* Parser::function_declaration
Parser_function_declaration(p, kind) ==
    LET declared(name, params, body) ==
            IF body.ok THEN Parsed(Function(name.v.lexeme, params.v, body.v), body.p)
            ELSE body
        braced(name, params, brace) ==
            IF brace.ok THEN declared(name, params, Parser_block(brace.p)) ELSE brace
        closed(name, params, right) ==
            IF right.ok
            THEN braced(name, params,
                        Parser_consume(right.p, "LeftBrace",
                                       "Expect '{' after before " \o kind \o " body."))
            ELSE right
        listed(name, params) ==
            IF params.ok
            THEN closed(name, params, Parser_consume(params.p, "RightParen",
                                                     "Expect ')' after parameters."))
            ELSE params
        opened(name, left) ==
            IF ~left.ok THEN left
            ELSE listed(name, IF ~Parser_check(left.p, "RightParen")
                              THEN params_loop(left.p, <<>>)
                              ELSE Parsed(<<>>, left.p))
        named(name) ==
            IF name.ok
            THEN opened(name, Parser_consume(name.p, "LeftParen",
                                             "Expect '(' after " \o kind \o " name."))
            ELSE name
    IN named(Parser_consume(p, "Identifier", "Expect " \o kind \o " name."))

\* the method loop of Parser::class_declaration
class_methods_loop(p, methods) ==
    LET pushed(method) ==
            IF ~method.ok THEN method
            ELSE class_methods_loop(method.p, Append(methods, method.v))
    IN IF ~Parser_check(p, "RightBrace") /\ ~Parser_is_at_end(p)
       THEN pushed(Parser_function_declaration(p, "method"))
       ELSE Parsed(methods, p)

\* Parser::class_declaration
Parser_class_declaration(p) ==
    LET closed(name, methods, right) ==
            IF right.ok THEN Parsed(Class(name.v.lexeme, NoExpr, methods.v), right.p)
            ELSE right
        body(name, methods) ==
            IF methods.ok
            THEN closed(name, methods, Parser_consume(methods.p, "RightBrace",
                                                      "Expect '}}' after class body."))
            ELSE methods
        opened(name, left) ==
            IF left.ok THEN body(name, class_methods_loop(left.p, <<>>)) ELSE left
        named(name) ==
            IF name.ok
            THEN opened(name, Parser_consume(name.p, "LeftBrace",
                                             "Expect '{{' before class body."))
            ELSE name
    IN named(Parser_consume(p, "Identifier", "Expect class name."))

\* Parser::declaration, the choice of the function
declaration_result(p) ==
    LET token_type == Parser_peek_type(p) IN
    CASE token_type = "Class" -> Parser_class_declaration(Parser_advance(p))
      [] token_type = "Fun" -> Parser_function_declaration(Parser_advance(p), "function")
      [] token_type = "Var" -> Parser_var_declaration(Parser_advance(p))
      [] OTHER -> Parser_statement(p)

\* Parser::declaration : Some(statement), or None after the report and the
\* synchronisation
Parser_declaration(p) ==
    LET caught(declaration) ==
            IF declaration.ok
            THEN [some |-> TRUE, v |-> declaration.v, p |-> declaration.p]
            ELSE [some |-> FALSE,
                  p |-> Parser_synchronize([declaration.p EXCEPT
                                               !.had_error = TRUE,
                                               !.errors = Append(@, declaration.msg)])]
    IN caught(declaration_result(p))

\* Parser::parse : the statements, and the parser as it is left
RECURSIVE Parser_parse(_, _)
Parser_parse(p, statements) ==
    LET pushed(statement) ==
            Parser_parse(statement.p,
                         IF statement.some THEN Append(statements, statement.v)
                         ELSE statements)
    IN IF Parser_is_at_end(p) THEN [statements |-> statements, parser |-> p]
       ELSE pushed(Parser_declaration(p))

-----------------------------------------------------------------------------
(* run (main.rs) on source texts: scan, parse, resolve, interpret *)

\* fun t(n) { print n; return n; } for (var i = t(0); t(i) < 2; i = t(i + 1)) print "b";
ForOrder_for ==
    <<"f", "u", "n", " ", "t", "(", "n", ")", " ", "{", " ", "p", "r", "i", "n", "t",
      " ", "n", ";", " ", "r", "e", "t", "u", "r", "n", " ", "n", ";", " ", "}", " ",
      "f", "o", "r", " ", "(", "v", "a", "r", " ", "i", " ", "=", " ", "t", "(", "0",
      ")", ";", " ", "t", "(", "i", ")", " ", "<", " ", "2", ";", " ", "i", " ", "=",
      " ", "t", "(", "i", " ", "+", " ", "1", ")", ")", " ", "p", "r", "i", "n", "t",
      " ", "\"", "b", "\"", ";">>

\* { var i = t(0); while (t(i) < 2) { print "b"; i = t(i + 1); } }
ForOrder_while ==
    <<"{", " ", "v", "a", "r", " ", "i", " ", "=", " ", "t", "(", "0", ")", ";", " ",
      "w", "h", "i", "l", "e", " ", "(", "t", "(", "i", ")", " ", "<", " ", "2", ")",
      " ", "{", " ", "p", "r", "i", "n", "t", " ", "\"", "b", "\"", ";", " ", "i", " ",
      "=", " ", "t", "(", "i", " ", "+", " ", "1", ")", ";", " ", "}", " ", "}">>

\* var j = 0; for (; j < 2;) { print j; j = j + 1; }
ForBare_for ==
    <<"v", "a", "r", " ", "j", " ", "=", " ", "0", ";", " ", "f", "o", "r", " ", "(",
      ";", " ", "j", " ", "<", " ", "2", ";", ")", " ", "{", " ", "p", "r", "i", "n",
      "t", " ", "j", ";", " ", "j", " ", "=", " ", "j", " ", "+", " ", "1", ";", " ",
      "}">>

\* j = 0; while (j < 2) { print j; j = j + 1; }
ForBare_while ==
    <<"j", " ", "=", " ", "0", ";", " ", "w", "h", "i", "l", "e", " ", "(", "j", " ",
      "<", " ", "2", ")", " ", "{", " ", "p", "r", "i", "n", "t", " ", "j", ";", " ",
      "j", " ", "=", " ", "j", " ", "+", " ", "1", ";", " ", "}">>

\* fun f() { for (var k = 0;; k = k + 1) if (k == 1) return; else print k; } f();
ForEver_for ==
    <<"f", "u", "n", " ", "f", "(", ")", " ", "{", " ", "f", "o", "r", " ", "(", "v",
      "a", "r", " ", "k", " ", "=", " ", "0", ";", ";", " ", "k", " ", "=", " ", "k",
      " ", "+", " ", "1", ")", " ", "i", "f", " ", "(", "k", " ", "=", "=", " ", "1",
      ")", " ", "r", "e", "t", "u", "r", "n", ";", " ", "e", "l", "s", "e", " ", "p",
      "r", "i", "n", "t", " ", "k", ";", " ", "}", " ", "f", "(", ")", ";">>

\* fun g() { { var k = 0; while (true) { if (k == 1) return; else print k; k = k + 1; } } } g();
ForEver_while ==
    <<"f", "u", "n", " ", "g", "(", ")", " ", "{", " ", "{", " ", "v", "a", "r", " ",
      "k", " ", "=", " ", "0", ";", " ", "w", "h", "i", "l", "e", " ", "(", "t", "r",
      "u", "e", ")", " ", "{", " ", "i", "f", " ", "(", "k", " ", "=", "=", " ", "1",
      ")", " ", "r", "e", "t", "u", "r", "n", ";", " ", "e", "l", "s", "e", " ", "p",
      "r", "i", "n", "t", " ", "k", ";", " ", "k", " ", "=", " ", "k", " ", "+", " ",
      "1", ";", " ", "}", " ", "}", " ", "}", " ", "g", "(", ")", ";">>

\* { var a = 1; print a; } print ;
ParseErrorAfterBlock ==
    <<"{", " ", "v", "a", "r", " ", "a", " ", "=", " ", "1", ";", " ", "p", "r", "i",
      "n", "t", " ", "a", ";", " ", "}", " ", "p", "r", "i", "n", "t", " ", ";">>

\* print 1; return 2;
ReturnAtTopLevel ==
    <<"p", "r", "i", "n", "t", " ", "1", ";", " ", "r", "e", "t", "u", "r", "n", " ",
      "2", ";">>

\* print 1; { var a = 1; var a = 2; }
DeclaredTwice ==
    <<"p", "r", "i", "n", "t", " ", "1", ";", " ", "{", " ", "v", "a", "r", " ", "a",
      " ", "=", " ", "1", ";", " ", "v", "a", "r", " ", "a", " ", "=", " ", "2", ";",
      " ", "}">>

\* print 1; @
UnexpectedCharacter ==
    <<"p", "r", "i", "n", "t", " ", "1", ";", " ", "@">>

\* print 2; "s
UnterminatedString ==
    <<"p", "r", "i", "n", "t", " ", "2", ";", " ", "\"", "s">>

\* var a; var b; var c = 1; a = b = c; print a; print b;
AssignChain ==
    <<"v", "a", "r", " ", "a", ";", " ", "v", "a", "r", " ", "b", ";", " ", "v", "a",
      "r", " ", "c", " ", "=", " ", "1", ";", " ", "a", " ", "=", " ", "b", " ", "=",
      " ", "c", ";", " ", "p", "r", "i", "n", "t", " ", "a", ";", " ", "p", "r", "i",
      "n", "t", " ", "b", ";">>

\* var o; o.f = 1;
AssignProperty ==
    <<"v", "a", "r", " ", "o", ";", " ", "o", ".", "f", " ", "=", " ", "1", ";">>

\* var a; 1 = a;
AssignLiteral ==
    <<"v", "a", "r", " ", "a", ";", " ", "1", " ", "=", " ", "a", ";">>

\* var a; var b; a + b = 1;
AssignSum ==
    <<"v", "a", "r", " ", "a", ";", " ", "v", "a", "r", " ", "b", ";", " ", "a", " ",
      "+", " ", "b", " ", "=", " ", "1", ";">>

\* print 1; var n; print n();
NotCallable ==
    <<"p", "r", "i", "n", "t", " ", "1", ";", " ", "v", "a", "r", " ", "n", ";", " ",
      "p", "r", "i", "n", "t", " ", "n", "(", ")", ";">>

\* var inc; var get; fun make() { var n = 0; fun i() { n = n + 1; } fun g() { return n; } inc = i; get = g; } make(); inc(); inc(); print get();
SharedByClosures ==
    <<"v", "a", "r", " ", "i", "n", "c", ";", " ", "v", "a", "r", " ", "g", "e", "t",
      ";", " ", "f", "u", "n", " ", "m", "a", "k", "e", "(", ")", " ", "{", " ", "v",
      "a", "r", " ", "n", " ", "=", " ", "0", ";", " ", "f", "u", "n", " ", "i", "(",
      ")", " ", "{", " ", "n", " ", "=", " ", "n", " ", "+", " ", "1", ";", " ", "}",
      " ", "f", "u", "n", " ", "g", "(", ")", " ", "{", " ", "r", "e", "t", "u", "r",
      "n", " ", "n", ";", " ", "}", " ", "i", "n", "c", " ", "=", " ", "i", ";", " ",
      "g", "e", "t", " ", "=", " ", "g", ";", " ", "}", " ", "m", "a", "k", "e", "(",
      ")", ";", " ", "i", "n", "c", "(", ")", ";", " ", "i", "n", "c", "(", ")", ";",
      " ", "p", "r", "i", "n", "t", " ", "g", "e", "t", "(", ")", ";">>

\* { var k = 0; fun c() { k = k + 1; return k; } var j = c(); k = c(); print j + k; }
Reentrant ==
    <<"{", " ", "v", "a", "r", " ", "k", " ", "=", " ", "0", ";", " ", "f", "u", "n",
      " ", "c", "(", ")", " ", "{", " ", "k", " ", "=", " ", "k", " ", "+", " ", "1",
      ";", " ", "r", "e", "t", "u", "r", "n", " ", "k", ";", " ", "}", " ", "v", "a",
      "r", " ", "j", " ", "=", " ", "c", "(", ")", ";", " ", "k", " ", "=", " ", "c",
      "(", ")", ";", " ", "p", "r", "i", "n", "t", " ", "j", " ", "+", " ", "k", ";",
      " ", "}">>

\* var n = 0; fun b() { n = n + 1; return n; } var m = b(); print m + n;
ReentrantGlobal ==
    <<"v", "a", "r", " ", "n", " ", "=", " ", "0", ";", " ", "f", "u", "n", " ", "b",
      "(", ")", " ", "{", " ", "n", " ", "=", " ", "n", " ", "+", " ", "1", ";", " ",
      "r", "e", "t", "u", "r", "n", " ", "n", ";", " ", "}", " ", "v", "a", "r", " ",
      "m", " ", "=", " ", "b", "(", ")", ";", " ", "p", "r", "i", "n", "t", " ", "m",
      " ", "+", " ", "n", ";">>

\* { var n = 0; fun s() { n = 7; } fun g() { return n; } s(); print n; n = 9; print g(); }
SharedWithScope ==
    <<"{", " ", "v", "a", "r", " ", "n", " ", "=", " ", "0", ";", " ", "f", "u", "n",
      " ", "s", "(", ")", " ", "{", " ", "n", " ", "=", " ", "7", ";", " ", "}", " ",
      "f", "u", "n", " ", "g", "(", ")", " ", "{", " ", "r", "e", "t", "u", "r", "n",
      " ", "n", ";", " ", "}", " ", "s", "(", ")", ";", " ", "p", "r", "i", "n", "t",
      " ", "n", ";", " ", "n", " ", "=", " ", "9", ";", " ", "p", "r", "i", "n", "t",
      " ", "g", "(", ")", ";", " ", "}">>

\* for loops, each with the loop written by hand as
\* { init; while (cond) { body; incr; } } and the values either of them prints
ForLoops ==
    {[for |-> ForOrder_for, while |-> ForOrder_while,
      effects |-> <<Number(0), Number(0), String("b"), Number(1), Number(1), String("b"),
                    Number(2), Number(2)>>],
     [for |-> ForBare_for, while |-> ForBare_while, effects |-> <<Number(0), Number(1)>>],
     [for |-> ForEver_for, while |-> ForEver_while, effects |-> <<Number(0)>>]}

\* the text of a file that holds the for loop and then the loop written by hand
Both(loop) == loop.for \o <<" ">> \o loop.while

\* the contents of the file given to run_file
RunSources ==
    {Both(loop) : loop \in ForLoops} \cup
    {ParseErrorAfterBlock, ReturnAtTopLevel, DeclaredTwice, UnexpectedCharacter,
     UnterminatedString, AssignChain, AssignProperty, AssignLiteral, AssignSum,
     NotCallable, SharedByClosures, SharedWithScope, Reentrant,
     ReentrantGlobal}

\* LoxError::lexical_error and parse_error, and a resolver_error (the text of
\* the resolver's messages is left out), as they are reported
static_error(kind, message) ==
    [c |-> "err", kind |-> kind, message |-> message, value |-> Nil]

\* the reports of one pass, in order
static_errors(kind, messages) ==
    [i \in 1..Len(messages) |-> static_error(kind, messages[i])]

\* A variant of the test after the parse that never stops run.
parse_error_ignored(parser) == FALSE

\* run : `if parser.had_error { return; }`
parse_error(parser) == parser.had_error

\* main : Interpreter::new; run_file : the file read; run : Scanner::new
InitRun ==
    /\ program \in RunSources
    /\ locals = EmptyMap
    /\ environment = Globals
    /\ envs = << [values |-> ("clock" :> NativeFunction("clock", 0)), enclosing |-> NoEnv] >>
    /\ instances = <<>>
    /\ ctl = [c |-> "scan", scanner |-> Scanner_new(program)]
    /\ kont = <<>>
    /\ out = <<>>
    /\ reported = <<>>
    /\ reads = {}
    /\ lastCall = [c |-> "none"]
    /\ lastGet = [c |-> "none"]

\* run, once scan_tokens has returned: the parser, the return on a parse
\* error, the resolver, the return on a resolver error, and the start of
\* interpret
run ==
    /\ ctl.c = "scanned"
    /\ LET lexical == static_errors("Lexical", ctl.scanner.errors)
           parser(parsed) == static_errors("Parser", parsed.parser.errors)
           resolved(parsed, resolver) ==
               /\ locals' = resolver.locals @@ locals
               /\ reported' = reported \o lexical \o parser(parsed) \o
                      IF resolver.had_error THEN <<static_error("Resolver", "")>> ELSE <<>>
               /\ IF resolver.had_error \/ parsed.statements = <<>>
                  THEN ctl' = Finished /\ kont' = kont
                  ELSE /\ ctl' = Exec(Head(parsed.statements))
                       /\ kont' = Push(Frame("interpret", [rest |-> Tail(parsed.statements)]))
           after(parsed) ==
               IF parse_error(parsed.parser)
               THEN /\ ctl' = Finished /\ kont' = kont /\ locals' = locals
                    /\ reported' = reported \o lexical \o parser(parsed)
               ELSE resolved(parsed, resolve(Resolver_new, parsed.statements))
       IN after(Parser_parse(Parser_new(ctl.scanner.tokens), <<>>))
    /\ UNCHANGED <<program, environment, heap, out, history>>

NextRun ==
    \/ Scanner_scan_tokens_loop
    \/ Scanner_scan_tokens_return
    \/ run
    \/ interpret
    \/ QuestionMark
    \/ Interpreter_visit_expression_stmt
    \/ Interpreter_visit_print_stmt
    \/ Interpreter_visit_var_stmt
    \/ Interpreter_visit_block_stmt
    \/ execute_block_step
    \/ Interpreter_visit_if_stmt
    \/ Interpreter_visit_while_stmt
    \/ Interpreter_visit_function_stmt
    \/ Interpreter_visit_return_stmt
    \/ Interpreter_visit_literal_expr
    \/ Interpreter_visit_variable_expr
    \/ Interpreter_visit_assign_expr
    \/ Interpreter_visit_binary_expr
    \/ Interpreter_visit_call_expr
    \/ LoxFunction_call

SpecRun == InitRun /\ [][NextRun]_vars

-----------------------------------------------------------------------------
(* Properties of run *)

\* a pass of the given kind reported at least one error
Reported(kind) == \E i \in 1..Len(reported) : reported[i].kind = kind

\* no statement of the source was executed: nothing printed, the globals as
\* Interpreter::new left them, no other environment made
NothingExecuted ==
    /\ out = <<>>
    /\ environment = Globals
    /\ envs = << [values |-> ("clock" :> NativeFunction("clock", 0)), enclosing |-> NoEnv] >>
    /\ instances = <<>>

C12_LexicalErrorsGateExecution ==
    Reported("Lexical") => NothingExecuted

\* the parse of the tokens the scanner has returned
Parse == Parser_parse(Parser_new(ctl.scanner.tokens), <<>>)

\* C17: the target of an assignment.  `=` after a Variable makes an Assign
\* node, after a Get (a property access) a Set node, and after any other
\* expression the parse error "Invalid assignment target." is reported;
\* assignment is right-associative: `a = b = c` is Assign(a, Assign(b, c)), so
\* that b and then a take the value of c.
C17_AssignmentTargets ==
    /\ (ctl.c = "scanned" /\ program = AssignChain) =>
           /\ Parse.parser.errors = <<>>
           /\ LET expr == Parse.statements[4].expression IN
              /\ expr.t = "Assign" /\ expr.name = "a"
              /\ expr.value.t = "Assign" /\ expr.value.name = "b"
              /\ expr.value.value.t = "Variable" /\ expr.value.value.name = "c"
    /\ (ctl = Finished /\ program = AssignChain) => out = <<Number(1), Number(1)>>
    /\ (ctl.c = "scanned" /\ program = AssignProperty) =>
           /\ Parse.parser.errors = <<>>
           /\ LET expr == Parse.statements[2].expression IN
              /\ expr.t = "Set" /\ expr.name = "f"
              /\ expr.object.t = "Variable" /\ expr.object.name = "o"
              /\ expr.value.t = "Literal"
    /\ (ctl.c = "scanned" /\ program \in {AssignLiteral, AssignSum}) =>
           Parse.parser.errors = <<"Invalid assignment target.">>

\* C18: a for loop runs as the loop written by hand.  For each sample, the
\* file holds `for (init; cond; incr) body` and then
\* `{ init; while (cond) { body; incr; } }`; when run has finished, the values
\* printed by the for loop are init once, then cond, body, incr in turn (a
\* missing cond taken as true), and the hand-written loop has printed the same
\* sequence after it, without any error.
C18_ForAsWhile ==
    \A loop \in ForLoops :
        (program = Both(loop) /\ ctl = Finished) =>
            /\ out = loop.effects \o loop.effects
            /\ reported = <<>>

\* the loop whose three clauses and body all print has been run in both forms
C18_Witness ==
    /\ program = ForOrder_for \o <<" ">> \o ForOrder_while
    /\ ctl = Finished
    /\ Len(out) = 16
    /\ SubSeq(out, 1, 8) = SubSeq(out, 9, 16)
    /\ SubSeq(out, 2, 5) = <<Number(0), String("b"), Number(1), Number(1)>>

\* C23: environments are shared by reference.  The frame of a call encloses
\* the closure of the function itself, not a copy; two closures declared in
\* one scope hold the same frame, and an assignment made through one of them
\* (or by the code of the declaring scope) is read by the other.
C23_EnvironmentsShared ==
    /\ \A i \in 1..Len(kont) :
           kont[i].k = "function_call" =>
               envs[kont[i].data.environment].enclosing = kont[i].data.function.closure
    /\ (program = SharedByClosures /\ ctl = Finished) =>
           /\ out = <<Number(2)>>
           /\ reported = <<>>
           /\ envs[Globals].values["inc"].closure = envs[Globals].values["get"].closure
    /\ (program = SharedWithScope /\ ctl = Finished) =>
           /\ out = <<Number(7), Number(9)>>
           /\ reported = <<>>

\* two closures of one call of make have been stored, one has been called
\* twice and the other has read the variable both hold
C23_Witness ==
    /\ program = SharedByClosures
    /\ ctl = Finished
    /\ envs[Globals].values["inc"].closure = envs[Globals].values["get"].closure
    /\ envs[envs[Globals].values["get"].closure].values["n"] = Number(2)
    /\ out = <<Number(2)>>

\* ---------------------------------------------------------------------------
\* The borrows of the environment frames (Rc<RefCell<Environment>>)
\* ---------------------------------------------------------------------------

\* RefCell::borrow (mutable FALSE) or RefCell::borrow_mut (mutable TRUE) of a
\* frame
Borrow(frame, mutable) == [frame |-> frame, mutable |-> mutable]

RECURSIVE get_borrows(_, _, _)
\* Environment::get on frame e : the borrows it takes, each one while the
\* ones before it are active (`enclosing.borrow().get(name)`)
get_borrows(h, e, name) ==
    IF name \in DOMAIN h[e].values THEN <<>>
    ELSE IF h[e].enclosing # NoEnv
    THEN <<Borrow(h[e].enclosing, FALSE)>> \o get_borrows(h, h[e].enclosing, name)
    ELSE <<>>

RECURSIVE assign_borrows(_, _, _)
\* Environment::assign on frame e (`env.borrow_mut().assign(name, value)`)
assign_borrows(h, e, name) ==
    IF name \in DOMAIN h[e].values THEN <<>>
    ELSE IF h[e].enclosing # NoEnv
    THEN <<Borrow(h[e].enclosing, TRUE)>> \o assign_borrows(h, h[e].enclosing, name)
    ELSE <<>>

RECURSIVE get_at_borrows(_, _, _, _)
\* Environment::get_at on frame e
\* (`enclosing.borrow_mut().get_at(distance - 1, name)`, then `self.get(name)`)
get_at_borrows(h, e, distance, name) ==
    IF distance = 0 THEN get_borrows(h, e, name)
    ELSE IF h[e].enclosing # NoEnv
    THEN <<Borrow(h[e].enclosing, TRUE)>> \o
         get_at_borrows(h, h[e].enclosing, distance - 1, name)
    ELSE <<>>

RECURSIVE assign_at_borrows(_, _, _)
\* Environment::assign_at on frame e
\* (`enclosing.borrow_mut().assign_at(distance - 1, name, value)`)
assign_at_borrows(h, e, distance) ==
    IF distance = 0 THEN <<>>
    ELSE IF h[e].enclosing # NoEnv
    THEN <<Borrow(h[e].enclosing, TRUE)>> \o assign_at_borrows(h, h[e].enclosing, distance - 1)
    ELSE <<>>

\* Interpreter::look_up_variable : `self.environment.borrow().get_at(..)` or
\* `self.globals.borrow().get(name)`
look_up_variable_borrows(name, uid) ==
    IF uid \in DOMAIN locals
    THEN <<Borrow(environment, FALSE)>> \o get_at_borrows(envs, environment, locals[uid], name)
    ELSE <<Borrow(Globals, FALSE)>> \o get_borrows(envs, Globals, name)

\* Interpreter::visit_assign_expr, after the value :
\* `self.environment.borrow_mut().assign_at(..)` or
\* `self.globals.borrow_mut().assign(..)`
visit_assign_expr_borrows(expr) ==
    IF expr.uid \in DOMAIN locals
    THEN <<Borrow(environment, TRUE)>> \o assign_at_borrows(envs, environment, locals[expr.uid])
    ELSE <<Borrow(Globals, TRUE)>> \o assign_borrows(envs, Globals, expr.name)

\* The borrows the handler that runs next takes, each while the ones before
\* it are active; <<>> for a handler that touches no frame.
Borrows ==
    CASE Visiting("expr", "Variable") ->
             look_up_variable_borrows(ctl.node.name, ctl.node.uid)
      [] Visiting("expr", "This") -> look_up_variable_borrows("this", ctl.node.uid)
      [] Resuming("val", "assign_expr") -> visit_assign_expr_borrows(Top.data.expr)
      [] Resuming("val", "var_stmt") -> <<Borrow(environment, TRUE)>>
      [] Visiting("stmt", "Var") /\ ctl.node.initializer.t = "None" ->
             <<Borrow(environment, TRUE)>>
      [] Visiting("stmt", "Function") -> <<Borrow(environment, TRUE)>>
      [] Visiting("stmt", "Class") -> <<Borrow(environment, TRUE)>>
      [] ctl.c = "call" /\ ctl.callee.t = "Function" -> <<Borrow(Len(envs) + 1, TRUE)>>
      [] ctl.c \in {"ok", "err"} /\ kont # <<>> /\ Top.k = "function_call"
             /\ Top.data.function.is_initializer ->
             <<Borrow(Top.data.function.closure, FALSE)>> \o
             get_at_borrows(envs, Top.data.function.closure, 0, "this")
      [] OTHER -> <<>>

\* A variant in which visit_var_stmt and visit_assign_expr borrow the current
\* frame before they evaluate the initializer or the value.
held_over_evaluate(frame) ==
    IF frame.k \in {"var_stmt", "assign_expr"} THEN <<Borrow(frame.env0, TRUE)>> ELSE <<>>

\* The borrows a handler keeps while it waits for an evaluate or an execute
\* of its own: none, every borrow() and borrow_mut() of the interpreter is a
\* temporary of the statement that follows the evaluation
held(frame) == <<>>

RECURSIVE held_by(_)
\* the borrows kept by the handlers of a stack
held_by(stack) ==
    IF stack = <<>> THEN <<>> ELSE held_by(SubSeq(stack, 1, Len(stack) - 1)) \o held(stack[Len(stack)])

\* RefCell's rule: a frame is borrowed mutably while another borrow of it is
\* active (BorrowError or BorrowMutError)
double_borrow(borrows) ==
    \E i, j \in 1..Len(borrows) :
        /\ i < j
        /\ borrows[i].frame = borrows[j].frame
        /\ borrows[i].mutable \/ borrows[j].mutable

\* C28: no frame is borrowed mutably while another borrow of it is active:
\* the borrows of the handler that runs next, taken on top of those kept by
\* the suspended handlers, never meet RefCell's rule, and every frame encloses
\* itself in no chain (a frame's enclosing frame was created before it).
C28_NoDoubleBorrow ==
    /\ ctl.c \notin {"scan", "scanned"} => ~double_borrow(held_by(kont) \o Borrows)
    /\ \A e \in 1..Len(envs) : envs[e].enclosing < e

\* a function called from the initializer of a variable, or from the value
\* of an assignment, writes to the frame of that variable through the chain
C28_Witness ==
    /\ program = Reentrant
    /\ Resuming("val", "assign_expr")
    /\ Len(Borrows) = 2
    /\ \E i \in 1..Len(kont) :
           /\ kont[i].k \in {"var_stmt", "assign_expr"}
           /\ i < CurrentCall
           /\ kont[i].env0 = Borrows[2].frame

-----------------------------------------------------------------------------
(* The operations of Environment (environment.rs), called in any order on a  *)
(* heap of frames: `out` is the list of the writes called, `ctl` the last    *)
(* call with what it returned.                                               *)

\* At most MaxFrames frames are created.
MaxFrames == 3

\* At most MaxWrites calls of define, assign and assign_at are made.
MaxWrites == 2

\* the names read and written
EnvNames == {"a", "b"}

\* the value of the next write: the values written are all different
NextValue == Number(Len(out) + 1)

\* the call of a write, as it is listed
Write(op, e, distance, name, value) ==
    [op |-> op, e |-> e, distance |-> distance, name |-> name, value |-> value]

\* Environment::new
InitEnv ==
    /\ program = <<>>
    /\ locals = EmptyMap
    /\ environment = Globals
    /\ envs = << [values |-> EmptyMap, enclosing |-> NoEnv] >>
    /\ instances = <<>>
    /\ ctl = [c |-> "new"]
    /\ kont = <<>>
    /\ out = <<>>
    /\ reported = <<>>
    /\ reads = {}
    /\ lastCall = [c |-> "none"]
    /\ lastGet = [c |-> "none"]

\* Environment::new_enclosing
Environment_new_enclosing ==
    /\ Len(envs) < MaxFrames
    /\ \E enclosing \in 1..Len(envs) :
           /\ envs' = new_enclosing(envs, enclosing)
           /\ ctl' = [c |-> "new_enclosing", enclosing |-> enclosing]
    /\ UNCHANGED <<program, locals, environment, instances, kont, out, reported, history>>

\* Environment::define
Environment_define ==
    /\ Len(out) < MaxWrites
    /\ \E e \in 1..Len(envs), name \in EnvNames :
           /\ envs' = define(envs, e, name, NextValue)
           /\ ctl' = [c |-> "define", e |-> e, name |-> name]
           /\ out' = Append(out, Write("define", e, 0, name, NextValue))
    /\ UNCHANGED <<program, locals, environment, instances, kont, reported, history>>

\* Environment::get
Environment_get ==
    /\ \E e \in 1..Len(envs), name \in EnvNames :
           ctl' = [c |-> "get", e |-> e, name |-> name, result |-> get(envs, e, name)]
    /\ UNCHANGED <<program, locals, environment, heap, kont, out, reported, history>>

\* Environment::assign
Environment_assign ==
    /\ Len(out) < MaxWrites
    /\ \E e \in 1..Len(envs), name \in EnvNames :
           LET written(result) ==
                   /\ envs' = IF result.ok THEN result.v ELSE envs
                   /\ ctl' = [c |-> "assign", e |-> e, name |-> name, value |-> NextValue,
                              before |-> envs,
                              result |-> IF result.ok THEN Ok(Nil) ELSE result]
           IN /\ written(assign(envs, e, name, NextValue))
              /\ out' = Append(out, Write("assign", e, 0, name, NextValue))
    /\ UNCHANGED <<program, locals, environment, instances, kont, reported, history>>

\* Environment::get_at
Environment_get_at ==
    /\ \E e \in 1..Len(envs), distance \in 0..(MaxFrames - 1), name \in EnvNames :
           ctl' = [c |-> "get_at", e |-> e, distance |-> distance, name |-> name,
                   result |-> get_at(envs, e, distance, name)]
    /\ UNCHANGED <<program, locals, environment, heap, kont, out, reported, history>>

\* Environment::assign_at
Environment_assign_at ==
    /\ Len(out) < MaxWrites
    /\ \E e \in 1..Len(envs), distance \in 0..(MaxFrames - 1), name \in EnvNames :
           LET written(result) ==
                   /\ envs' = IF result.ok THEN result.v ELSE envs
                   /\ ctl' = [c |-> "assign_at", e |-> e, distance |-> distance,
                              name |-> name, value |-> NextValue, before |-> envs,
                              panic |-> ~result.ok]
           IN /\ written(assign_at(envs, e, distance, name, NextValue))
              /\ out' = Append(out, Write("assign_at", e, distance, name, NextValue))
    /\ UNCHANGED <<program, locals, environment, instances, kont, reported, history>>

NextEnv ==
    \/ Environment_new_enclosing
    \/ Environment_define
    \/ Environment_get
    \/ Environment_assign
    \/ Environment_get_at
    \/ Environment_assign_at

SpecEnv == InitEnv /\ [][NextEnv]_vars

-----------------------------------------------------------------------------
(* Properties of Environment *)

RECURSIVE Chain(_)
\* the frames on the chain of frame e, e first, then outward
Chain(e) == IF e = NoEnv THEN <<>> ELSE <<e>> \o Chain(envs[e].enclosing)

\* the innermost frame on the chain of e that binds name in `bound`, 0 when
\* none does
Binder(bound, e, name) ==
    LET binding == {i \in 1..Len(Chain(e)) : name \in DOMAIN bound[Chain(e)[i]]} IN
    IF binding = {} THEN 0
    ELSE Chain(e)[CHOOSE i \in binding : \A j \in binding : i <= j]

RECURSIVE Bound(_)
\* what each frame binds after the first n writes listed in `out`, by what a
\* write is to do: define binds in the frame, assign in the innermost frame on
\* the chain that binds the name (nowhere if none does), assign_at in the
\* frame `distance` links outward
Bound(n) ==
    IF n = 0 THEN [f \in 1..Len(envs) |-> EmptyMap]
    ELSE LET w == out[n]
             target == CASE w.op = "define" -> w.e
                         [] w.op = "assign" -> Binder(Bound(n - 1), w.e, w.name)
                         [] w.op = "assign_at" ->
                                IF w.distance < Len(Chain(w.e))
                                THEN Chain(w.e)[w.distance + 1] ELSE 0
         IN IF target = 0 THEN Bound(n - 1)
            ELSE [Bound(n - 1) EXCEPT ![target] = (w.name :> w.value) @@ @]

\* C21: what get returns.  After any sequence of writes, get(name) on a frame
\* returns the value most recently bound to name in the innermost frame on its
\* chain that binds name (a define on a bound name having overwritten it), and
\* the error "Undefined variable" exactly when no frame on the chain binds it.
C21_GetReadsInnermostBinding ==
    ctl.c = "get" =>
        LET bound == Bound(Len(out))
            frame == Binder(bound, ctl.e, ctl.name)
        IN IF frame = 0
           THEN ~ctl.result.ok /\ ctl.result.msg = "Undefined variable"
           ELSE ctl.result.ok /\ ctl.result.v = bound[frame][ctl.name]

\* get has read, through an inner frame, a name that the inner frame and its
\* enclosing frame both bind
C21_Witness ==
    /\ ctl.c = "get"
    /\ envs[ctl.e].enclosing # NoEnv
    /\ ctl.name \in DOMAIN envs[ctl.e].values
    /\ ctl.name \in DOMAIN envs[envs[ctl.e].enclosing].values
    /\ ctl.result.ok
    /\ ctl.result.v = out[2].value
    /\ out[1].e = envs[ctl.e].enclosing /\ out[2].e = ctl.e
    /\ out[1].op = "define" /\ out[2].op = "define"

\* what each frame of a heap binds
Values(h) == [f \in 1..Len(h) |-> h[f].values]

\* C22: what assign changes.  assign(name, value) on a frame changes exactly
\* the binding of name in the innermost frame on the chain that already binds
\* it, and every other binding and frame is as before; when no frame on the
\* chain binds name it returns the error "Undefined variable" and every frame
\* is as before.
C22_AssignChangesOneBinding ==
    ctl.c = "assign" =>
        LET frame == Binder(Values(ctl.before), ctl.e, ctl.name) IN
        IF frame = 0
        THEN /\ ~ctl.result.ok /\ ctl.result.msg = "Undefined variable"
             /\ envs = ctl.before
        ELSE /\ ctl.result.ok
             /\ ctl.name \in DOMAIN ctl.before[frame].values
             /\ envs = [ctl.before EXCEPT ![frame].values[ctl.name] = ctl.value]

\* assign, called on an inner frame that does not bind the name, has written
\* the binding of the enclosing frame
C22_Witness ==
    /\ ctl.c = "assign"
    /\ ctl.result.ok
    /\ envs[ctl.e].enclosing # NoEnv
    /\ ctl.name \notin DOMAIN envs[ctl.e].values
    /\ envs[envs[ctl.e].enclosing].values[ctl.name] = ctl.value
    /\ ctl.before[envs[ctl.e].enclosing].values[ctl.name] # ctl.value

\* C24: get_at and assign_at work on the frame exactly `distance` links
\* outward.  get_at reads name from that frame only: when that frame does not
\* bind name it returns no binding of a frame farther out; assign_at binds
\* name in that frame and leaves every other frame as before.
C24_AtExactDistance ==
    /\ (ctl.c = "get_at" /\ ctl.distance < Len(Chain(ctl.e))) =>
           LET frame == Chain(ctl.e)[ctl.distance + 1] IN
           IF ctl.name \in DOMAIN envs[frame].values
           THEN ctl.result.ok /\ ctl.result.v = envs[frame].values[ctl.name]
           ELSE ~ctl.result.ok
    /\ (ctl.c = "assign_at" /\ ctl.distance < Len(Chain(ctl.e))) =>
           LET frame == Chain(ctl.e)[ctl.distance + 1] IN
           /\ ~ctl.panic
           /\ envs = [ctl.before EXCEPT ![frame].values = (ctl.name :> ctl.value) @@ @]

-----------------------------------------------------------------------------
(* The resolver run on statements that Parser::parse may hand it: a          *)
(* statement nested in functions, methods, loops and blocks, and a statement *)
(* of the top level after it.                                                *)

\* A statement is nested in at most MaxNesting bodies.
MaxNesting == 3

\* the bodies a statement is nested in: of a function, of a method of a
\* class, of the method init of a class, of a method of a class that has a
\* superclass, of a while loop, of a block
Bodies == {"function", "method", "init", "submethod", "while", "block"}

\* the statements nested: return; return 1; break; this; super.m;
Nested(uid) ==
    [return |-> Return(NoExpr),
     return_value |-> Return(Literal(uid, Number(1))),
     break |-> Break,
     this |-> Expression(This(uid)),
     super |-> Expression(Super(uid, "m"))]

\* the statement that holds `stmt` in a body of the given kind
InBody(kind, stmt) ==
    CASE kind = "function" -> Function("f", <<>>, <<stmt>>)
      [] kind = "method" -> Class("C", NoExpr, << Function("m", <<>>, <<stmt>>) >>)
      [] kind = "init" -> Class("C", NoExpr, << Function("init", <<>>, <<stmt>>) >>)
      [] kind = "submethod" ->
             Class("C", Variable(0, "B"), << Function("m", <<>>, <<stmt>>) >>)
      [] kind = "while" -> While(Literal(0, Bool(TRUE)), stmt)
      [] kind = "block" -> Block(<<stmt>>)

RECURSIVE Nest(_, _)
\* the statement nested in the bodies of `context`, the outermost first
Nest(context, stmt) ==
    IF context = <<>> THEN stmt
    ELSE InBody(Head(context), Nest(Tail(context), stmt))

\* the sequences of at most n kinds of bodies
RECURSIVE Contexts(_)
Contexts(n) ==
    IF n = 0 THEN {<<>>}
    ELSE Contexts(n - 1) \cup
         {<<kind>> \o context : kind \in Bodies,
                                context \in {c \in Contexts(n - 1) : Len(c) = n - 1}}

\* the statements of a sample: the nested statement, and the one after it
Statements(sample) ==
    << Nest(sample.context, Nested(1)[sample.nested]) >> \o
    (IF sample.after = "none" THEN <<>> ELSE << Nested(2)[sample.after] >>)

\* Resolver::new, before resolve
InitResolve ==
    /\ program \in [context : Contexts(MaxNesting), nested : DOMAIN Nested(1),
                    after : DOMAIN Nested(2) \cup {"none"}]
    /\ locals = EmptyMap
    /\ environment = Globals
    /\ envs = << [values |-> ("clock" :> NativeFunction("clock", 0)), enclosing |-> NoEnv] >>
    /\ instances = <<>>
    /\ ctl = [c |-> "resolve", resolver |-> Resolver_new]
    /\ kont = <<>>
    /\ out = <<>>
    /\ reported = <<>>
    /\ reads = {}
    /\ lastCall = [c |-> "none"]
    /\ lastGet = [c |-> "none"]

\* run : resolver.resolve(&statements), which fills the interpreter's locals
Resolver_resolve ==
    /\ ctl.c = "resolve"
    /\ LET resolved(resolver) ==
               /\ ctl' = [c |-> "resolved", resolver |-> resolver]
               /\ locals' = resolver.locals
       IN resolved(resolve(ctl.resolver, Statements(program)))
    /\ UNCHANGED <<program, environment, heap, kont, out, reported, history>>

SpecResolve == InitResolve /\ [][Resolver_resolve]_vars

-----------------------------------------------------------------------------
(* Properties of the resolver *)

\* the kind of the innermost body of a function or method in a context,
\* "none" when the context has none
InnermostFunction(context) ==
    LET bodies == {i \in 1..Len(context) :
                       context[i] \in {"function", "method", "init", "submethod"}} IN
    IF bodies = {} THEN "none"
    ELSE context[CHOOSE i \in bodies : \A j \in bodies : j <= i]

\* C25: the returns the resolver rejects.  A `return` that is in no body of a
\* function or method is a static error, and so is a `return <value>;` whose
\* innermost function is a method named init; every other `return` is
\* accepted.  The function type is restored when the resolver leaves a
\* function: a `return` of the top level after the declaration is rejected.
C25_ReturnsRejected ==
    (/\ ctl.c = "resolved"
     /\ program.nested \in {"return", "return_value"}
     /\ program.after \in {"none", "return", "return_value"}) =>
        (ctl.resolver.had_error <=>
            \/ InnermostFunction(program.context) = "none"
            \/ /\ program.nested = "return_value"
               /\ InnermostFunction(program.context) = "init"
            \/ program.after # "none")

\* the index in a context of the innermost body of a method, 0 when the
\* context has none
InnermostClass(context) ==
    LET bodies == {i \in 1..Len(context) : context[i] \in {"method", "init", "submethod"}} IN
    IF bodies = {} THEN 0 ELSE CHOOSE i \in bodies : \A j \in bodies : j <= i

\* the scopes between a statement nested in a context and the scope of its
\* innermost class: that of the method, and one for each function and block
\* inside the method
ScopesInsideClass(context) ==
    1 + Cardinality({i \in (InnermostClass(context) + 1)..Len(context) :
                         context[i] \in {"function", "block"}})

FunctionBody(context) ==
    LET bodies == {i \in 1..Len(context) :
                       context[i] \in {"function", "method", "init", "submethod"}} IN
    IF bodies = {} THEN 0 ELSE CHOOSE i \in bodies : \A j \in bodies : j <= i

MaxTokens == 3

\* the token types drawn for the lists
TokenTypes ==
    {"Print", "Identifier", "Semicolon", "LeftParen", "RightParen", "LeftBrace",
     "RightBrace", "Fun", "Comma", "For"}

\* the lexeme the scanner leaves in a token of the type
Lexeme(token_type) ==
    CASE token_type = "Print" -> "print"
      [] token_type = "Identifier" -> "a"
      [] token_type = "Semicolon" -> ";"
      [] token_type = "LeftParen" -> "("
      [] token_type = "RightParen" -> ")"
      [] token_type = "LeftBrace" -> "{"
      [] token_type = "RightBrace" -> "}"
      [] token_type = "Fun" -> "fun"
      [] token_type = "Comma" -> ","
      [] token_type = "For" -> "for"
      [] OTHER -> ""

Tok(token_type) == Token(token_type, Lexeme(token_type), Nil, 1)

Toks(types) == [i \in 1..Len(types) |-> Tok(types[i])]

\* a, a, ..., a : n identifiers separated by commas
Listed(n) ==
    IF n = 0 THEN <<>>
    ELSE [i \in 1..(2 * n - 1) |-> IF i % 2 = 1 THEN "Identifier" ELSE "Comma"]

\* fun a(a, ..., a) {} print a;
FunctionWith(n) ==
    Toks(<<"Fun", "Identifier", "LeftParen">> \o Listed(n) \o
         <<"RightParen", "LeftBrace", "RightBrace", "Print", "Identifier", "Semicolon",
           "Eof">>)

\* a(a, ..., a); print a;
CallWith(n) ==
    Toks(<<"Identifier", "LeftParen">> \o Listed(n) \o
         <<"RightParen", "Semicolon", "Print", "Identifier", "Semicolon", "Eof">>)

\* the lists at the limit and one past it
LongLists ==
    {FunctionWith(ListLimit), FunctionWith(ListLimit + 1),
     CallWith(ListLimit), CallWith(ListLimit + 1)}

\* longer lists whose errors fall inside a block, a for clause, a parameter
\* list, an argument list and a function body
NestedLists ==
    {Toks(types \o <<"Eof">>) : types \in
        {<<"LeftBrace", "RightParen", "Identifier", "Semicolon", "RightBrace">>,
         <<"LeftBrace", "LeftBrace", "RightParen", "RightBrace", "Print">>,
         <<"For", "LeftParen", "Semicolon", "Semicolon", "RightParen", "LeftBrace",
           "Identifier", "Semicolon", "RightBrace">>,
         <<"For", "LeftParen", "Semicolon", "Comma", "Semicolon", "RightParen",
           "Identifier", "Semicolon">>,
         <<"Fun", "Identifier", "LeftParen", "Identifier", "Comma", "RightParen",
           "LeftBrace", "RightBrace">>,
         <<"Fun", "Identifier", "LeftParen", "RightParen", "LeftBrace", "Comma",
           "Print", "Identifier", "Semicolon", "RightBrace", "RightBrace">>,
         <<"Identifier", "LeftParen", "Identifier", "Comma", "Semicolon", "Print",
           "Identifier", "Semicolon">>}}

\* every list of at most MaxTokens tokens, then Eof
ShortLists ==
    UNION {{Toks(types \o <<"Eof">>) : types \in [1..n -> TokenTypes]} : n \in 0..MaxTokens}

\* Parser::new, and the head of Parser::parse
InitParse ==
    /\ program \in ShortLists \cup NestedLists \cup LongLists
    /\ locals = EmptyMap
    /\ environment = Globals
    /\ envs = <<>>
    /\ instances = <<>>
    /\ ctl = [c |-> "parse", parser |-> Parser_new(program), statements |-> <<>>]
    /\ kont = <<>>
    /\ out = <<>>
    /\ reported = <<>>
    /\ reads = {}
    /\ lastCall = [c |-> "none"]
    /\ lastGet = [c |-> "none"]

\* A variant of the loop of Parser::parse that goes back to the token the
\* declaration began at when the declaration is None.
Parser_parse_loop_backtracking ==
    /\ ctl.c = "parse"
    /\ ~Parser_is_at_end(ctl.parser)
    /\ LET pushed(statement) ==
               ctl' = [ctl EXCEPT
                          !.parser = IF statement.some THEN statement.p
                                     ELSE [statement.p EXCEPT !.current = ctl.parser.current],
                          !.statements = IF statement.some THEN Append(@, statement.v) ELSE @]
       IN pushed(Parser_declaration(ctl.parser))
    /\ UNCHANGED <<program, locals, environment, heap, kont, out, reported, history>>

\* one turn of the loop of Parser::parse
Parser_parse_loop ==
    /\ ctl.c = "parse"
    /\ ~Parser_is_at_end(ctl.parser)
    /\ LET pushed(statement) ==
               ctl' = [ctl EXCEPT
                          !.parser = statement.p,
                          !.statements = IF statement.some THEN Append(@, statement.v) ELSE @]
       IN pushed(Parser_declaration(ctl.parser))
    /\ UNCHANGED <<program, locals, environment, heap, kont, out, reported, history>>

\* the end of the loop of Parser::parse : the statements are returned
Parser_parse_return ==
    /\ ctl.c = "parse"
    /\ Parser_is_at_end(ctl.parser)
    /\ ctl' = [ctl EXCEPT !.c = "parsed"]
    /\ UNCHANGED <<program, locals, environment, heap, kont, out, reported, history>>

NextParse ==
    \/ Parser_parse_loop
    \/ Parser_parse_return

SpecParse == InitParse /\ [][NextParse]_vars

\* the loop of parse is not left waiting for ever: weak fairness of NextParse,
\* which is enabled exactly while parse has not returned
SpecParseFair ==
    SpecParse /\ ([]<>(ctl.c # "parse") \/ []<><<NextParse>>_vars)

\* ---------------------------------------------------------------------------
\* Claims about the parser
\* ---------------------------------------------------------------------------

\* the parser has constructed the error of a list longer than ListLimit
LimitExceeded(parser) ==
    \E i \in 1..Len(parser.errors) :
        parser.errors[i] \in {"Cannot have more than 255 parameters.",
                              "Cannot have more than 255 arguments."}

\* C27: a parameter list or an argument list with more than 255 entries is a
\* parse error that the parser records: once parse has returned after such a
\* list the parser's error indicator is set, so that run returns before the
\* resolver and the interpreter; the parse itself is not aborted (the function
\* or the call, and the print statement after it, are both among the
\* statements returned).
C27_LimitErrorRecorded ==
    (ctl.c = "parsed" /\ program \in {FunctionWith(ListLimit + 1), CallWith(ListLimit + 1)})
        => /\ LimitExceeded(ctl.parser)
           /\ Len(ctl.statements) = 2
           /\ parse_error(ctl.parser)

\* the cursor is the index of a token of the list
CursorInList == ctl.parser.current + 1 \in 1..Len(ctl.parser.tokens)

\* C30: Parser::parse terminates on every finite list of tokens that ends with
\* Eof: every turn of its loop (a declaration, with the synchronisation after
\* a failed one) leaves the cursor strictly further than it found it, the
\* cursor is always the index of a token of the list, and parse returns.
C30_ParseTerminates ==
    /\ [][(ctl.c = "parse" /\ ctl'.c = "parse")
             => ctl'.parser.current > ctl.parser.current]_vars
    /\ []CursorInList
    /\ <>(ctl.c = "parsed")

\* parse has returned after a declaration that failed and was synchronised
\* and one that succeeded
C30_Witness ==
    /\ ctl.c = "parsed"
    /\ program \in ShortLists
    /\ ctl.parser.had_error
    /\ ctl.statements # <<>>
    /\ ctl.parser.current = MaxTokens

====
